---- MODULE Spec2Model ----
(***************************************************************************)
(* Verification model of the mateai knowledge pipeline:                    *)
(*   - QueueManager (BullMQ queue + worker wrapper) and its retry policy,  *)
(*   - IngestionWorker.processJob on top of the ingestion queue,           *)
(*   - VectorStore.store with concurrent callers, VectorStore.search and   *)
(*     the other reads of the knowledge_chunks table,                      *)
(*   - ToolRegistry.execute and OrchestratorAgent.executeAgentLoop,        *)
(*   - ContextBuilder.buildContext.                                        *)
(* Each subsystem has its own specification over its own variables; the    *)
(* variables of the other subsystems stay at their initial value.          *)
(***************************************************************************)
EXTENDS Integers, Sequences, FiniteSets, TLC

VARIABLES
    jobs,             \* ingestion queue: sequence of BullMQ jobs (index = job id)
    queueDefaults,    \* options.defaultJobOptions.attempts given to the QueueManager (0 = not given)
    rawEvents,        \* raw_events table: sequence of rows (index = row id)
    processingQueue,  \* jobs on the `processing` queue
    chunks,           \* knowledge_chunks table: sequence of rows (index = chunk id)
    calls,            \* VectorStore.store calls in flight or finished
    read,             \* the VectorStore read operation (search, getById, ...) in progress
    agent,            \* state of one OrchestratorAgent.executeAgentLoop run
    toolExec,         \* one ToolRegistry.execute call: its arguments and its result
    ctx,              \* one ContextBuilder.buildContext call: its arguments and its result
    proc,             \* one call of a processor or retrieval helper: its arguments and its result
    adapter           \* one SlackAdapter: its status, its Slack app and its calls in progress

queueVars  == <<jobs, queueDefaults>>
ingestVars == <<rawEvents, processingQueue>>
storeVars  == <<chunks, calls, read>>
agentVars  == <<agent>>
pureVars   == <<toolExec, ctx, proc, adapter>>
vars == <<jobs, queueDefaults, rawEvents, processingQueue, chunks, calls, read,
          agent, toolExec, ctx, proc, adapter>>

----------------------------------------------------------------------------
(* Bounds of the model *)

MaxJobs        == 2   \* jobs ever added to the ingestion queue
MaxQueueJobs   == 1   \* jobs ever added to the queue of QueueSpec
MaxDeliveries  == 2   \* handler invocations of one job before its completion is no longer lost
MaxAttemptsOpt == 6   \* largest `attempts` job option tried
MaxStoreCalls  == 3   \* VectorStore.store calls
MaxIterationsCfg == 2 \* largest AgentConfig.maxIterations tried (0 = not set)
MaxToolCalls   == 2   \* tool calls in one LLM response
MaxHistory     == 1   \* messages of conversation history
MaxToolUses    == 5   \* tool calls of one agent run, over all its responses

(* Program constants *)

DefaultMaxIterations == 5    \* config.maxIterations || 5
DefaultAttempts    == 3      \* defaultJobOptions.attempts
BackoffBaseDelay   == 2000   \* defaultJobOptions.backoff.delay (ms)
DefaultConcurrency == 5      \* IngestionWorker.start(concurrency = 5)

NoId == "none"   \* IngestionJobData.externalId absent (undefined)
Sources     == {"slack", "jira"}
ExternalIds == {NoId, "e1"}
IngestionJobData == [source : Sources, externalId : ExternalIds]
NoData == [source |-> "slack", externalId |-> NoId]

ContentHashes == {"h1", "h2"}   \* StoreChunkData.contentHash values

Sentinel == "Unable to complete request within iteration limit."
Texts       == {"answer"}                 \* CompletionResponse.content values
ToolNames   == {"custom_tool", "unknown_tool"}   \* ToolCall.name values the model asks for

Undefined == "undefined"   \* the JavaScript value undefined

----------------------------------------------------------------------------
(* Helpers *)

Min(a, b) == IF a < b THEN a ELSE b

RECURSIVE Pow2(_)
Pow2(n) == IF n <= 0 THEN 1 ELSE 2 * Pow2(n - 1)

----------------------------------------------------------------------------
(* QueueManager: job options, retry and backoff *)

(* Queue.add merges defaultJobOptions of the constructor ({attempts: 3, ...,
   ...options.defaultJobOptions}) with the options of the call; 0 = option
   not given. *)
JobAttempts(optAttempts, dflt) ==
    IF optAttempts # 0 THEN optAttempts
    ELSE IF dflt # 0 THEN dflt
    ELSE DefaultAttempts

(* backoff {type: 'exponential', delay: 2000}: delay before the retry that
   follows the attemptsMade-th failure. *)
BackoffDelay(attemptsMade) == BackoffBaseDelay * Pow2(attemptsMade - 1)

NewJob(data, optAttempts, dflt) ==
    [ data         |-> data,
      attempts     |-> JobAttempts(optAttempts, dflt),
      optAttempts  |-> optAttempts,
      attemptsMade |-> 0,
      thrown       |-> 0,        \* exceptions thrown by the handler (history)
      state        |-> "waiting",
      pc           |-> "none",
      delay        |-> 0,
      deliveries   |-> 0,        \* handler invocations started
      rows         |-> {},       \* ids of the rows this job inserted (history)
      skipped      |-> FALSE ]   \* last handler run dropped the event as duplicate

(* The worker wrapper of createWorker logs and rethrows what the handler
   throws; the result is what reaches BullMQ. *)
WrapperSwallows(outcome) == "ok"

WrapperOutcome(outcome) == outcome

(* BullMQ on a failed attempt: attemptsMade is incremented; the job is
   rescheduled with backoff while attemptsMade < attempts, else failed. *)
FailJob(job) ==
    LET made == job.attemptsMade + 1 IN
    IF made < job.attempts
    THEN [job EXCEPT !.attemptsMade = made, !.state = "delayed",
                     !.delay = BackoffDelay(made), !.pc = "none"]
    ELSE [job EXCEPT !.attemptsMade = made, !.state = "failed", !.pc = "none"]

(* The handler of job j, whose record it left as `job`, ended with
   `outcome` ("ok" or "throw"). *)
HandlerEnds(j, job, outcome) ==
    LET ended == [job EXCEPT !.thrown = @ + (IF outcome = "throw" THEN 1 ELSE 0)] IN
    IF WrapperOutcome(outcome) = "throw"
    THEN jobs' = [jobs EXCEPT ![j] = FailJob(ended)]
    ELSE jobs' = [jobs EXCEPT ![j] = [ended EXCEPT !.pc = "returned"]]

ActiveCount == Cardinality({j \in DOMAIN jobs : jobs[j].state = "active"})

(* QueueManager.add(jobName, data, options) *)
QueueAdd(data, optAttempts, maxJobs) ==
    /\ Len(jobs) < maxJobs
    /\ jobs' = Append(jobs, NewJob(data, optAttempts, queueDefaults))

(* The BullMQ worker takes a waiting job while it has a free slot. *)
Fetch(j, concurrency) ==
    /\ jobs[j].state = "waiting"
    /\ ActiveCount < concurrency
    /\ jobs' = [jobs EXCEPT ![j].state = "active", ![j].pc = "start",
                            ![j].deliveries = @ + 1, ![j].skipped = FALSE]

(* The handler returned and BullMQ records the completion. *)
Complete(j) ==
    /\ jobs[j].state = "active" /\ jobs[j].pc = "returned"
    /\ jobs' = [jobs EXCEPT ![j].state = "completed", ![j].pc = "none"]

(* At-least-once delivery: the completion is lost (worker lock expired or
   worker died after the handler ran) and the job is delivered again. *)
Redeliver(j) ==
    /\ jobs[j].state = "active" /\ jobs[j].pc = "returned"
    /\ jobs[j].deliveries < MaxDeliveries
    /\ jobs' = [jobs EXCEPT ![j].state = "waiting", ![j].pc = "none"]

(* The backoff delay of a delayed job has elapsed. *)
Promote(j) ==
    /\ jobs[j].state = "delayed"
    /\ jobs' = [jobs EXCEPT ![j].state = "waiting", ![j].delay = 0]

----------------------------------------------------------------------------
(* Specification of the QueueManager with an arbitrary handler *)

QAdd ==
    /\ \E opt \in 0..MaxAttemptsOpt : QueueAdd(NoData, opt, MaxQueueJobs)
    /\ UNCHANGED <<queueDefaults, ingestVars, storeVars, agentVars, pureVars>>

QFetch ==
    /\ \E j \in DOMAIN jobs : Fetch(j, 1)
    /\ UNCHANGED <<queueDefaults, ingestVars, storeVars, agentVars, pureVars>>

QHandlerReturns ==
    /\ \E j \in DOMAIN jobs :
          /\ jobs[j].state = "active" /\ jobs[j].pc = "start"
          /\ HandlerEnds(j, jobs[j], "ok")
    /\ UNCHANGED <<queueDefaults, ingestVars, storeVars, agentVars, pureVars>>

QHandlerThrows ==
    /\ \E j \in DOMAIN jobs :
          /\ jobs[j].state = "active" /\ jobs[j].pc = "start"
          /\ HandlerEnds(j, jobs[j], "throw")
    /\ UNCHANGED <<queueDefaults, ingestVars, storeVars, agentVars, pureVars>>

QComplete ==
    /\ \E j \in DOMAIN jobs : Complete(j)
    /\ UNCHANGED <<queueDefaults, ingestVars, storeVars, agentVars, pureVars>>

QPromote ==
    /\ \E j \in DOMAIN jobs : Promote(j)
    /\ UNCHANGED <<queueDefaults, ingestVars, storeVars, agentVars, pureVars>>

----------------------------------------------------------------------------------------------------------------------------------------
(* IngestionWorker *)

(* prisma.rawEvent.findFirst({where: {source, externalId}}) *)
FindFirst(source, externalId) ==
    {i \in DOMAIN rawEvents :
        rawEvents[i].source = source /\ rawEvents[i].externalId = externalId}

(* `if (externalId)`: the lookup runs only for a present external id. *)
DedupApplies(externalId) == externalId # NoId

(* data of prisma.rawEvent.create; `job` records the inserting job. *)
NewRawEvent(data, j) ==
    [ source           |-> data.source,
      externalId       |-> data.externalId,
      processingStatus |-> "pending",
      job              |-> j ]

(* IngestionWorker.addEvent: queue.add('ingest-event', data), no options *)
AddEvent ==
    /\ \E data \in IngestionJobData : QueueAdd(data, 0, MaxJobs)
    /\ UNCHANGED <<queueDefaults, ingestVars, storeVars, agentVars, pureVars>>

(* The worker started by IngestionWorker.start takes a job. *)
IngestFetch ==
    /\ \E j \in DOMAIN jobs : Fetch(j, DefaultConcurrency)
    /\ UNCHANGED <<queueDefaults, ingestVars, storeVars, agentVars, pureVars>>

(* processJob up to the result of findFirst: on an existing row the handler
   returns without writing, otherwise it goes on to create. *)
ProcessJobDedup ==
    /\ \E j \in DOMAIN jobs :
          /\ jobs[j].state = "active" /\ jobs[j].pc = "start"
          /\ IF /\ DedupApplies(jobs[j].data.externalId)
                /\ FindFirst(jobs[j].data.source, jobs[j].data.externalId) # {}
             THEN HandlerEnds(j, [jobs[j] EXCEPT !.skipped = TRUE], "ok")
             ELSE jobs' = [jobs EXCEPT ![j].pc = "create"]
    /\ UNCHANGED <<queueDefaults, ingestVars, storeVars, agentVars, pureVars>>

(* findFirst rejects (database error): caught, logged, rethrown. *)
ProcessJobDedupThrows ==
    /\ \E j \in DOMAIN jobs :
          /\ jobs[j].state = "active" /\ jobs[j].pc = "start"
          /\ DedupApplies(jobs[j].data.externalId)
          /\ HandlerEnds(j, jobs[j], "throw")
    /\ UNCHANGED <<queueDefaults, ingestVars, storeVars, agentVars, pureVars>>

(* prisma.rawEvent.create, then the handler returns: the enqueue for
   processing is a TODO comment, nothing is added to the processing queue. *)
ProcessJobCreate ==
    /\ \E j \in DOMAIN jobs :
          /\ jobs[j].state = "active" /\ jobs[j].pc = "create"
          /\ rawEvents' = Append(rawEvents, NewRawEvent(jobs[j].data, j))
          /\ HandlerEnds(j, [jobs[j] EXCEPT !.rows = @ \cup {Len(rawEvents) + 1}], "ok")
    /\ UNCHANGED <<queueDefaults, processingQueue, storeVars, agentVars, pureVars>>

(* create rejects (database error): caught, logged, rethrown. *)
ProcessJobCreateThrows ==
    /\ \E j \in DOMAIN jobs :
          /\ jobs[j].state = "active" /\ jobs[j].pc = "create"
          /\ HandlerEnds(j, jobs[j], "throw")
    /\ UNCHANGED <<queueDefaults, ingestVars, storeVars, agentVars, pureVars>>

IngestComplete ==
    /\ \E j \in DOMAIN jobs : Complete(j)
    /\ UNCHANGED <<queueDefaults, ingestVars, storeVars, agentVars, pureVars>>

IngestRedeliver ==
    /\ \E j \in DOMAIN jobs : Redeliver(j)
    /\ UNCHANGED <<queueDefaults, ingestVars, storeVars, agentVars, pureVars>>

IngestPromote ==
    /\ \E j \in DOMAIN jobs : Promote(j)
    /\ UNCHANGED <<queueDefaults, ingestVars, storeVars, agentVars, pureVars>>

----------------------------------------------------------------------------
(* VectorStore.store *)

(* prisma.knowledgeChunk.findUnique({where: {contentHash}}): the ids of the
   rows with that hash (content_hash is a unique column). *)
FindUniqueNone(hash) == {}

FindUniqueByHash(hash) ==
    {i \in DOMAIN chunks : chunks[i].contentHash = hash}

(* StoreChunkData: the content (through its hash) and the data that do not
   depend on the content: sourceType, and sourceId, metadata and
   importanceScore taken together as `meta`. *)
SourceTypes == {"slack", "github"}
Origins ==
    { [sourceType |-> "slack", meta |-> "m1"],
      [sourceType |-> "github", meta |-> "m2"] }

(* The embedding of a content, as a point on a line (see Similarity). *)
EmbeddingOf(hash) == IF hash = "h1" THEN 1 ELSE 3

(* The unique index on content_hash: is there a row with the hash? *)
HashNeverStored(hash) == FALSE

HashStored(hash) == \E i \in DOMAIN chunks : chunks[i].contentHash = hash

(* The row written by the INSERT: tier 'hot', access_count 0, no
   last_accessed_at (0), created_at = NOW(), here the number of the insert. *)
NewChunkCounted(data, now) ==
    [ contentHash    |-> data.hash,
      sourceType     |-> data.origin.sourceType,
      meta           |-> data.origin.meta,
      embedding      |-> EmbeddingOf(data.hash),
      tier           |-> "hot",
      accessCount    |-> 1,
      lastAccessedAt |-> 0,
      createdAt      |-> now ]

NewChunk(data, now) ==
    [ contentHash    |-> data.hash,
      sourceType     |-> data.origin.sourceType,
      meta           |-> data.origin.meta,
      embedding      |-> EmbeddingOf(data.hash),
      tier           |-> "hot",
      accessCount    |-> 0,
      lastAccessedAt |-> 0,
      createdAt      |-> now ]

(* A caller enters store(data). *)
StoreStart ==
    /\ Len(calls) < MaxStoreCalls
    /\ \E h \in ContentHashes, origin \in Origins :
          calls' = Append(calls,
              [ hash     |-> h,
                origin   |-> origin,
                pc       |-> "findUnique",
                result   |-> 0,
                \* id of the row holding the hash when the call began (history)
                existing |-> IF \E i \in DOMAIN chunks : chunks[i].contentHash = h
                             THEN CHOOSE i \in DOMAIN chunks : chunks[i].contentHash = h
                             ELSE 0 ])
    /\ UNCHANGED <<chunks, read, queueVars, ingestVars, agentVars, pureVars>>

(* The duplicate check: an existing row is returned as it is. *)
StoreFindUnique ==
    /\ \E c \in DOMAIN calls :
          /\ calls[c].pc = "findUnique"
          /\ LET found == FindUniqueByHash(calls[c].hash) IN
             IF found # {}
             THEN calls' = [calls EXCEPT ![c].pc = "returned",
                                         ![c].result = CHOOSE i \in found : TRUE]
             ELSE calls' = [calls EXCEPT ![c].pc = "insert"]
    /\ UNCHANGED <<chunks, read, queueVars, ingestVars, agentVars, pureVars>>

(* The INSERT ... RETURNING: the unique index on content_hash rejects a
   second row with the hash; the error is logged and rethrown. *)
StoreInsert ==
    /\ \E c \in DOMAIN calls :
          /\ calls[c].pc = "insert"
          /\ IF HashStored(calls[c].hash)
             THEN /\ calls' = [calls EXCEPT ![c].pc = "threw"]
                  /\ UNCHANGED chunks
             ELSE /\ chunks' = Append(chunks, NewChunk(calls[c], Len(chunks) + 1))
                  /\ calls' = [calls EXCEPT ![c].pc = "returned",
                                            ![c].result = Len(chunks) + 1]
    /\ UNCHANGED <<read, queueVars, ingestVars, agentVars, pureVars>>

----------------------------------------------------------------------------
(* VectorStore.search, getById, getBySource and
   MemoryRetrievalService.findSimilar *)

MaxReads      == 2       \* read operations in a run
MaxMemStores  == 1       \* store calls in a run that also reads
MaxInitChunks == 2       \* rows in the table when the run starts

DefaultTopK                == 20    \* topK = 20
DefaultSimilarityThreshold == 70    \* similarityThreshold = 0.7, in hundredths
DefaultLimit               == 100   \* getBySource limit = 100

Tiers        == {"hot", "warm", "cold"}
DefaultTiersWithCold == {"hot", "warm", "cold"}
DefaultTiers == {"hot", "warm"}     \* tiers = ['hot', 'warm']

(* Vectors are points on a line; the cosine distance embedding <=> query is
   25 hundredths per unit, the similarity is 1 - distance. *)
Queries == {1, 2}
Distance(a, b) == 25 * (IF a > b THEN a - b ELSE b - a)
Similarity(a, b) == 100 - Distance(a, b)

(* SearchOptions; an option that is not given is 0, the empty set or
   given = FALSE. *)
TopKOpts       == {0, 1}
ThresholdOpts  == {0, 50}
SourceTypeOpts == {{}, {"slack"}}
TierOpts       == {[given |-> FALSE, set |-> {}], [given |-> TRUE, set |-> {"cold"}]}
SearchOptionsSet ==
    [topK : TopKOpts, similarityThreshold : ThresholdOpts,
     sourceTypes : SourceTypeOpts, tiers : TierOpts]

NoOptions ==
    [topK |-> 0, similarityThreshold |-> 0, sourceTypes |-> {},
     tiers |-> [given |-> FALSE, set |-> {}]]

(* The destructuring of options with its defaults. *)
EffectiveOptions(opts) ==
    [ topK |-> IF opts.topK = 0 THEN DefaultTopK ELSE opts.topK,
      similarityThreshold |-> IF opts.similarityThreshold = 0
                              THEN DefaultSimilarityThreshold
                              ELSE opts.similarityThreshold,
      sourceTypes |-> opts.sourceTypes,
      tiers |-> IF opts.tiers.given THEN opts.tiers.set ELSE DefaultTiers ]

(* The WHERE clause of the search query. *)
Qualifying(query, o) ==
    {i \in DOMAIN chunks :
        /\ chunks[i].tier \in o.tiers
        /\ o.sourceTypes # {} => chunks[i].sourceType \in o.sourceTypes
        /\ Similarity(chunks[i].embedding, query) >= o.similarityThreshold}

Range(seq) == {seq[i] : i \in DOMAIN seq}

(* ORDER BY embedding <=> query: ascending distance, nothing else. *)
InAnyOrder(r, query) == TRUE

InDistanceOrder(r, query) ==
    \A i, j \in DOMAIN r :
        i < j => Distance(chunks[r[i]].embedding, query)
                    <= Distance(chunks[r[j]].embedding, query)

(* The row lists the query can return: the qualifying rows in ascending
   distance, cut after topK.  Rows at the same distance come in whatever
   order the database produces them. *)
SearchResults(query, o) ==
    LET Q == Qualifying(query, o)
        k == Min(o.topK, Cardinality(Q))
    IN  {r \in [1..k -> Q] :
            /\ \A i, j \in 1..k : i # j => r[i] # r[j]
            /\ InDistanceOrder(r, query)
            /\ \A x \in Q \ Range(r), y \in Range(r) :
                  Distance(chunks[x].embedding, query)
                     >= Distance(chunks[y].embedding, query)}

(* updateMany data: accessCount incremented, lastAccessedAt = new Date(). *)
AccessUpdateTwice(row, now) ==
    [row EXCEPT !.accessCount = @ + 2, !.lastAccessedAt = now]

AccessUpdate(row, now) ==
    [row EXCEPT !.accessCount = @ + 1, !.lastAccessedAt = now]

(* findMany({where, orderBy: {createdAt: 'desc'}}): rows are stored in
   created_at order, so from the last row down. *)
RECURSIVE NewestFirst(_, _)
NewestFirst(i, sourceType) ==
    IF i = 0 THEN <<>>
    ELSE IF sourceType = "" \/ chunks[i].sourceType = sourceType
    THEN <<i>> \o NewestFirst(i - 1, sourceType)
    ELSE NewestFirst(i - 1, sourceType)

Take(seq, n) == SubSeq(seq, 1, Min(n, Len(seq)))

(* No read operation in progress.  seq numbers the operations; it is the
   time new Date() gives during the operation. *)
NoRead ==
    [ pc |-> "idle", op |-> "", stage |-> "", query |-> 0, opts |-> NoOptions,
      target |-> 0, result |-> <<>>, seq |-> 0, statsFailed |-> FALSE,
      output |-> <<>>, error |-> "", repeated |-> FALSE, first |-> <<>> ]

(* MemoryRetrievalService.findSimilar: searchResults.filter(r => r.chunk.id
   !== chunkId). *)
KeepAnchor(results, chunkId) == results
FilterAnchor(results, chunkId) == SelectSeq(results, LAMBDA id : id # chunkId)

(* The operation returns to its caller: `output` is what the caller gets,
   the rows found, for findSimilar without the anchor chunk. *)
Finish(rd) ==
    [rd EXCEPT !.pc = "returned",
               !.output = IF rd.op = "findSimilar"
                          THEN FilterAnchor(rd.result, rd.target)
                          ELSE rd.result]

ReadIdle == read.pc \in {"idle", "returned", "threw"} /\ read.seq < MaxReads

BeginRead(op, pc) ==
    [NoRead EXCEPT !.op = op, !.pc = pc, !.seq = read.seq + 1]

(* search(queryEmbedding, options) is called. *)
SearchStart ==
    /\ ReadIdle
    /\ \E query \in Queries, opts \in SearchOptionsSet :
          read' = [BeginRead("search", "select") EXCEPT !.stage = "search",
                                                        !.query = query,
                                                        !.opts = opts]
    /\ UNCHANGED <<chunks, calls, queueVars, ingestVars, agentVars, pureVars>>

(* The caller runs the search it has just been answered once more, with the
   same query and options; `first` keeps what the first run returned. *)
SearchRepeat ==
    /\ read.pc = "returned" /\ read.op = "search" /\ read.seq < MaxReads
    /\ read' = [read EXCEPT !.pc = "select", !.seq = read.seq + 1,
                            !.result = <<>>, !.output = <<>>,
                            !.statsFailed = FALSE, !.repeated = TRUE,
                            !.first = read.output]
    /\ UNCHANGED <<chunks, calls, queueVars, ingestVars, agentVars, pureVars>>

(* $queryRawUnsafe returns the rows; the access statistics are updated only
   if there are any. *)
SearchSelect ==
    /\ read.pc = "select"
    /\ \E r \in SearchResults(read.query, EffectiveOptions(read.opts)) :
          read' = IF Len(r) > 0
                  THEN [read EXCEPT !.result = r, !.pc = "update"]
                  ELSE Finish([read EXCEPT !.result = r])
    /\ UNCHANGED <<chunks, calls, queueVars, ingestVars, agentVars, pureVars>>

(* The query fails: search logs the error and rethrows it. *)
SearchSelectThrows ==
    /\ read.pc = "select"
    /\ read' = [read EXCEPT !.pc = "threw", !.error = "Search failed"]
    /\ UNCHANGED <<chunks, calls, queueVars, ingestVars, agentVars, pureVars>>

(* After updateAccessStats: findSimilar goes on from its getById to the
   search, everything else returns. *)
AfterUpdate(rd) ==
    IF rd.op = "findSimilar" /\ rd.stage = "lookup"
    THEN [rd EXCEPT !.pc = "embedding"]
    ELSE Finish(rd)

(* updateAccessStats(chunkIds): one updateMany over the ids. *)
UpdateAccessStats ==
    /\ read.pc = "update"
    /\ chunks' = [i \in DOMAIN chunks |->
                     IF i \in Range(read.result)
                     THEN AccessUpdate(chunks[i], read.seq)
                     ELSE chunks[i]]
    /\ read' = AfterUpdate(read)
    /\ UNCHANGED <<calls, queueVars, ingestVars, agentVars, pureVars>>

(* The catch block of updateAccessStats: a warning is logged and the read
   goes on; were the error to leave updateAccessStats, the read would end
   with it. *)
StatsRethrow(rd) == [rd EXCEPT !.pc = "threw", !.error = "Failed to update access stats"]
StatsCatch(rd) == AfterUpdate(rd)

(* updateMany fails: updateAccessStats logs a warning and returns. *)
UpdateAccessStatsFails ==
    /\ read.pc = "update"
    /\ read' = StatsCatch([read EXCEPT !.statsFailed = TRUE])
    /\ UNCHANGED <<chunks, calls, queueVars, ingestVars, agentVars, pureVars>>

(* getById(id) is called, for the id of a row or an id no row has. *)
GetByIdStart ==
    /\ ReadIdle
    /\ \E id \in 1..(Len(chunks) + 1) :
          read' = [BeginRead("getById", "findUnique") EXCEPT !.stage = "lookup",
                                                             !.target = id]
    /\ UNCHANGED <<chunks, calls, queueVars, ingestVars, agentVars, pureVars>>

(* findSimilar(chunkId, options) is called: it starts with getById. *)
FindSimilarStart ==
    /\ ReadIdle
    /\ \E id \in 1..(Len(chunks) + 1), opts \in SearchOptionsSet :
          read' = [BeginRead("findSimilar", "findUnique") EXCEPT
                      !.stage = "lookup", !.target = id, !.opts = opts]
    /\ UNCHANGED <<chunks, calls, queueVars, ingestVars, agentVars, pureVars>>

(* findUnique({where: {id}}) of getById: a row found has its statistics
   updated; without a row getById returns null and findSimilar throws. *)
GetByIdFind ==
    /\ read.pc = "findUnique"
    /\ read' = IF read.target \in DOMAIN chunks
               THEN [read EXCEPT !.result = <<read.target>>, !.pc = "update"]
               ELSE IF read.op = "findSimilar"
               THEN [read EXCEPT !.pc = "threw", !.error = "Chunk not found"]
               ELSE Finish(read)
    /\ UNCHANGED <<chunks, calls, queueVars, ingestVars, agentVars, pureVars>>

(* findSimilar: the row came without its embedding (the column is outside
   what findUnique selects): 'Chunk has no embedding'. *)
FindSimilarNoEmbedding ==
    /\ read.pc = "embedding"
    /\ read' = [read EXCEPT !.pc = "threw", !.error = "Chunk has no embedding"]
    /\ UNCHANGED <<chunks, calls, queueVars, ingestVars, agentVars, pureVars>>

(* findSimilar: the row came with its embedding, which becomes the query of
   a search. *)
FindSimilarSearch ==
    /\ read.pc = "embedding"
    /\ read' = [read EXCEPT !.stage = "search", !.pc = "select",
                            !.query = chunks[read.target].embedding,
                            !.result = <<>>]
    /\ UNCHANGED <<chunks, calls, queueVars, ingestVars, agentVars, pureVars>>

(* getBySource(sourceType?, limit): one findMany, no write. *)
GetBySource ==
    /\ ReadIdle
    /\ \E sourceType \in SourceTypes \cup {""}, limit \in {0, 1} :
          read' = Finish([BeginRead("getBySource", "returned") EXCEPT
                      !.stage = "findMany",
                      !.result = Take(NewestFirst(Len(chunks), sourceType),
                                      IF limit = 0 THEN DefaultLimit ELSE limit)])
    /\ UNCHANGED <<chunks, calls, queueVars, ingestVars, agentVars, pureVars>>

----------------------------------------------------------------------------
(* ToolRegistry *)

(* Arguments of a tool call: for each key, the JavaScript type of the value
   supplied, or "absent" when the key is not in the object. *)
ArgNames == {"query", "limit", "value"}
ArgKinds == {"absent", "string", "number"}
ToolArgs == [ArgNames -> ArgKinds]

(* What the handler of the tool does when it is invoked. *)
HandlerBehaviours == {"success", "failure", "throwsError", "throwsOther"}

(* The registry: search_memory as createDefaultToolRegistry and the agent
   service register it (no schema on any parameter), and a tool registered
   with a zod schema on its parameter. *)
RegisteredTools == {"search_memory", "custom_tool"}

ToolParameters(name) ==
    IF name = "search_memory"
    THEN << [name |-> "query", type |-> "string", required |-> TRUE,  schema |-> FALSE],
            [name |-> "limit", type |-> "number", required |-> FALSE, schema |-> FALSE] >>
    ELSE << [name |-> "value", type |-> "string", required |-> TRUE,  schema |-> TRUE] >>

(* param.schema.safeParse(value).success for the schema of the declared type *)
SchemaAccepts(param, kind) == kind = param.type

(* validateParameters: the parameters in order; the first violation ends it. *)
RECURSIVE ValidateFrom(_, _, _)
ValidateFrom(params, args, i) ==
    IF i > Len(params) THEN [valid |-> TRUE, error |-> Undefined]
    ELSE LET param   == params[i]
             present == args[param.name] # "absent"
         IN  IF param.required /\ ~present
             THEN [valid |-> FALSE,
                   error |-> "Missing required parameter: " \o param.name]
             ELSE IF param.schema /\ present /\ ~SchemaAccepts(param, args[param.name])
             THEN [valid |-> FALSE,
                   error |-> "Invalid parameter " \o param.name]
             ELSE ValidateFrom(params, args, i + 1)

ValidateParameters(name, args) == ValidateFrom(ToolParameters(name), args, 1)

(* A result of execute; `threw` and `invoked` record whether execute threw
   and whether the handler was called. *)
ToolResult(invoked, success, data, error) ==
    [threw |-> FALSE, invoked |-> invoked, success |-> success,
     data |-> data, error |-> error]

(* The catch block of execute: what the handler threw becomes a result. *)
RethrowHandlerError(behaviour) ==
    [threw |-> TRUE, invoked |-> TRUE, success |-> FALSE,
     data |-> Undefined, error |-> Undefined]

CatchHandlerError(behaviour) ==
    ToolResult(TRUE, FALSE, Undefined,
               IF behaviour = "throwsError" THEN "handler error" ELSE "Unknown error")

(* ToolRegistry.execute(toolName, params, context) *)
Execute(name, args, behaviour) ==
    IF name \notin RegisteredTools
    THEN ToolResult(FALSE, FALSE, Undefined, "Tool not found: " \o name)
    ELSE LET validation == ValidateParameters(name, args) IN
         IF ~validation.valid
         THEN ToolResult(FALSE, FALSE, Undefined,
                         "Invalid parameters: " \o validation.error)
         ELSE IF behaviour \in {"throwsError", "throwsOther"}
         THEN CatchHandlerError(behaviour)
         ELSE IF behaviour = "success"
         THEN ToolResult(TRUE, TRUE, "data", Undefined)
         ELSE ToolResult(TRUE, FALSE, Undefined, "handler failed")

NoResult == ToolResult(FALSE, FALSE, Undefined, Undefined)

(* No execute call made yet in this iteration. *)
NoExec ==
    [made |-> FALSE, name |-> "", valid |-> FALSE, behaviour |-> "",
     result |-> NoResult]

(* JSON.stringify(value): undefined gives undefined, not a string. *)
Stringify(value) ==
    IF value = Undefined THEN Undefined ELSE "json:" \o value

(* Arguments that supply only keys the tool declares; execute reads no
   other key. *)
DeclaredNames(name) ==
    IF name \in RegisteredTools
    THEN {ToolParameters(name)[i].name : i \in DOMAIN ToolParameters(name)}
    ELSE {}

DeclaredArgs(name) ==
    {args \in ToolArgs :
        \A k \in ArgNames \ DeclaredNames(name) : args[k] = "absent"}

(* One call of execute on arguments fixed at the start. *)
ToolExecute ==
    /\ toolExec.pc = "called"
    /\ toolExec' = [toolExec EXCEPT
                       !.pc = "returned",
                       !.result = Execute(toolExec.name, toolExec.args,
                                          toolExec.behaviour)]
    /\ UNCHANGED <<queueVars, ingestVars, storeVars, agentVars, ctx, proc, adapter>>

----------------------------------------------------------------------------
(* ContextBuilder *)

DefaultMaxTokens       == 8000   \* DEFAULT_MAX_TOKENS
FormattingReserve      == 500    \* reserved for formatting
DefaultMaxHistoryMsgs  == 10     \* options.maxHistory || 10
DefaultSystemPromptLen == 472    \* DEFAULT_SYSTEM_PROMPT.length
SeparatorLen           == 7      \* '\n\n---\n\n'.length

MaxCtxHistory == 2               \* messages in the conversation handed over
MaxCtxChunks  == 2               \* chunks returned by the retrieval service

(* Texts are kept by their length in characters. An option that is absent
   (or falsy) is 0. *)
MaxTokensOpts    == {0, 100, 1000}
SystemPromptLens == {0, 40}
MaxHistoryOpts   == {0, 1}
MessageLens      == {400, 4000}
ContentLens      == {100, 2000}
MetadataLens     == {0, 20}      \* length of the metadata line, 0 if none
SourceTypeLens   == {5, 6}       \* 'slack', 'github'
RelevanceLen     == 4            \* '85.0'

CtxHistories == UNION {[1..n -> MessageLens] : n \in 0..MaxCtxHistory}
CtxChunk     == [sourceType : SourceTypeLens, content : ContentLens,
                 metadata : MetadataLens]
CtxChunkLists == UNION {[1..n -> CtxChunk] : n \in 0..MaxCtxChunks}

(* estimateTokens: Math.ceil(text.length / 4) *)
EstimateTokens(len) == (len + 3) \div 4

(* formatChunk: '[Source: s | Relevance: r%]', the content and, if there is
   any, '\nMetadata: m', joined by '\n'. *)
FormatChunk(chunk) ==
    (9 + chunk.sourceType + 14 + RelevanceLen + 2) + 1 + chunk.content
    + (IF chunk.metadata > 0 THEN 1 + 11 + chunk.metadata ELSE 0)

(* conversationHistory.slice(-maxHistory) *)
SliceLast(history, n) ==
    IF Len(history) <= n THEN history
    ELSE SubSeq(history, Len(history) - n + 1, Len(history))

RECURSIVE HistoryTokens(_)
HistoryTokens(history) ==
    IF history = <<>> THEN 0
    ELSE EstimateTokens(Head(history)) + HistoryTokens(Tail(history))

(* A selection that passes over a chunk that does not fit and goes on. *)
RECURSIVE SelectFromSkipping(_, _, _)
SelectFromSkipping(chunkList, budget, usedTokens) ==
    IF chunkList = <<>> THEN <<>>
    ELSE LET formatted   == FormatChunk(Head(chunkList))
             chunkTokens == EstimateTokens(formatted)
         IN  IF usedTokens + chunkTokens > budget
             THEN SelectFromSkipping(Tail(chunkList), budget, usedTokens)
             ELSE <<formatted>> \o SelectFromSkipping(Tail(chunkList), budget,
                                                      usedTokens + chunkTokens)

(* selectChunks: chunks in order while they fit; the first that does not fit
   ends the selection.  Gives the formatted lengths of the selected chunks. *)
RECURSIVE SelectFrom(_, _, _)
SelectFrom(chunkList, budget, usedTokens) ==
    IF chunkList = <<>> THEN <<>>
    ELSE LET formatted   == FormatChunk(Head(chunkList))
             chunkTokens == EstimateTokens(formatted)
         IN  IF usedTokens + chunkTokens > budget THEN <<>>
             ELSE <<formatted>> \o SelectFrom(Tail(chunkList), budget,
                                              usedTokens + chunkTokens)

SelectChunksSkipping(chunkList, budget) == SelectFromSkipping(chunkList, budget, 0)

SelectChunks(chunkList, budget) == SelectFrom(chunkList, budget, 0)

(* contextParts.join('\n\n---\n\n').length *)
RECURSIVE JoinLen(_)
JoinLen(parts) ==
    IF parts = <<>> THEN 0
    ELSE IF Len(parts) = 1 THEN Head(parts)
    ELSE Head(parts) + SeparatorLen + JoinLen(Tail(parts))

(* buildContext(query, options, conversationHistory) with the chunks the
   retrieval service returns for the query. *)
BuildContextResult(opts, history, chunkList) ==
    LET maxTokens    == IF opts.maxTokens = 0 THEN DefaultMaxTokens
                        ELSE opts.maxTokens
        systemPrompt == IF opts.systemPrompt = 0 THEN DefaultSystemPromptLen
                        ELSE opts.systemPrompt
        maxHistory   == IF opts.maxHistory = 0 THEN DefaultMaxHistoryMsgs
                        ELSE opts.maxHistory
        filtered     == IF opts.includeHistory /\ Len(history) > 0
                        THEN SliceLast(history, maxHistory) ELSE <<>>
        usedTokens   == EstimateTokens(systemPrompt) + HistoryTokens(filtered)
        remaining    == maxTokens - usedTokens - FormattingReserve
        selected     == SelectChunks(chunkList, remaining)
        knowledge    == JoinLen(selected)
    IN  [ maxTokens           |-> maxTokens,
          systemPrompt        |-> systemPrompt,
          conversationHistory |-> filtered,
          knowledgeContext    |-> knowledge,
          chunksUsed          |-> Len(selected),
          totalTokens         |-> usedTokens + EstimateTokens(knowledge) ]

BuildContext ==
    /\ ctx.pc = "called"
    /\ ctx' = [ctx EXCEPT !.pc = "returned",
                          !.result = BuildContextResult(ctx.options, ctx.history,
                                                        ctx.retrieved)]
    /\ UNCHANGED <<queueVars, ingestVars, storeVars, agentVars, toolExec, proc, adapter>>

----------------------------------------------------------------------------
(* OrchestratorAgent.executeAgentLoop *)

(* maxIterations: config.maxIterations || 5 *)
ConfigMaxIterations(cfg) == IF cfg = 0 THEN DefaultMaxIterations ELSE cfg

(* while (iterations < this.config.maxIterations) *)
LoopContinuesInclusive(iterations, maxIterations) == iterations <= maxIterations

LoopContinues(iterations, maxIterations) == iterations < maxIterations

TextMessage(role, text) ==
    [role |-> role, content |-> text, blocks |-> <<>>, tool_call_id |-> 0]

(* {role: 'assistant', content: toolCalls.map(tool_use block)} *)
AssistantToolUse(toolCalls) ==
    [role |-> "assistant", content |-> "", blocks |-> toolCalls, tool_call_id |-> 0]

(* {role: 'tool', content: JSON.stringify(result.data), tool_call_id} *)
ToolMessageWithoutId(toolCall, result) ==
    [role |-> "tool", content |-> Stringify(result.data), blocks |-> <<>>,
     tool_call_id |-> 0]

ToolMessage(toolCall, result) ==
    [role |-> "tool", content |-> Stringify(result.data), blocks |-> <<>>,
     tool_call_id |-> toolCall.id]

(* Conversation histories handed over by the context builder. *)
Histories ==
    UNION {[1..n -> {TextMessage(r, "h") : r \in {"user", "assistant"}}] : n \in 0..MaxHistory}

(* State at the first test of the loop: messages = [system, ...history,
   user(query)], iterations = 0. *)
AgentLoopStart(cfg, history) ==
    [ pc            |-> "chat",
      maxIterations |-> ConfigMaxIterations(cfg),
      iterations    |-> 0,
      llmCalls      |-> 0,        \* llmClient.chat calls made (history)
      lastResponse  |-> "none",   \* kind of the last chat result (history)
      lastText      |-> "",       \* content of the last chat response (history)
      messages      |-> <<TextMessage("system", "s")>> \o history
                           \o <<TextMessage("user", "q")>>,
      pending       |-> <<>>,     \* tool calls of the response not executed yet
      toolCalls     |-> 0,        \* length of the returned toolCalls list
      lastExec      |-> NoExec,   \* the execute call just made (history)
      nextId        |-> 1,        \* next tool_use id handed out by the provider
      outcome       |-> "none",
      content       |-> "" ]

(* Tool calls of one response; the provider gives each a fresh id. *)
ResponseToolCalls(n, names, firstId) ==
    [k \in 1..n |-> [id |-> firstId + k - 1, name |-> names[k]]]

(* An iteration whose chat response has no tool calls: the final response. *)
LlmRespondsFinal ==
    /\ agent.pc = "chat"
    /\ \E text \in Texts :
          agent' = [agent EXCEPT !.iterations = @ + 1, !.llmCalls = @ + 1,
                                 !.lastResponse = "text", !.lastText = text,
                                 !.lastExec = NoExec,
                                 !.pc = "done", !.outcome = "final",
                                 !.content = text]
    /\ UNCHANGED <<queueVars, ingestVars, storeVars, pureVars>>

(* An iteration whose chat response carries tool calls: the assistant
   message with the tool_use blocks is appended. *)
LlmRespondsToolCalls ==
    /\ agent.pc = "chat"
    /\ \E n \in 1..MaxToolCalls, text \in Texts :
       \E names \in [1..n -> ToolNames] :
          LET tcs == ResponseToolCalls(n, names, agent.nextId) IN
          /\ agent.nextId + n - 1 <= MaxToolUses
          /\ agent' = [agent EXCEPT !.iterations = @ + 1, !.llmCalls = @ + 1,
                                 !.lastResponse = "tools", !.lastText = text,
                                 !.lastExec = NoExec,
                                 !.messages = Append(@, AssistantToolUse(tcs)),
                                 !.pending = tcs, !.nextId = @ + n,
                                 !.pc = "tools"]
    /\ UNCHANGED <<queueVars, ingestVars, storeVars, pureVars>>

(* llmClient.chat rejects (handleError throws): nothing catches it in the
   loop, process() logs and rethrows. *)
LlmThrows ==
    /\ agent.pc = "chat"
    /\ agent' = [agent EXCEPT !.iterations = @ + 1, !.llmCalls = @ + 1,
                              !.lastResponse = "throw", !.lastExec = NoExec,
                              !.pc = "error", !.outcome = "error"]
    /\ UNCHANGED <<queueVars, ingestVars, storeVars, pureVars>>

(* One turn of `for (const toolCall of response.toolCalls)`: execute, record,
   append the tool message; after the last one the loop condition is tested
   and the sentinel is returned when the limit is reached.  The transcript
   model keeps id and name of a tool call: its input and what the handler
   does are chosen here.  Nothing in the loop catches what execute throws. *)
ExecuteToolCall ==
    /\ agent.pc = "tools"
    /\ \E args \in DeclaredArgs(Head(agent.pending).name),
          behaviour \in HandlerBehaviours :
          LET tc     == Head(agent.pending)
              rest   == Tail(agent.pending)
              result == Execute(tc.name, args, behaviour)
              msgs   == Append(agent.messages, ToolMessage(tc, result))
              exec   == [made |-> TRUE, name |-> tc.name,
                         valid |-> ValidateParameters(tc.name, args).valid,
                         behaviour |-> IF result.invoked THEN behaviour ELSE "",
                         result |-> result]
          IN
          agent' =
             IF result.threw
             THEN [agent EXCEPT !.lastExec = exec, !.pc = "error",
                                !.outcome = "error"]
             ELSE IF rest # <<>>
             THEN [agent EXCEPT !.messages = msgs, !.pending = rest,
                                !.toolCalls = @ + 1, !.lastExec = exec]
             ELSE IF LoopContinues(agent.iterations, agent.maxIterations)
             THEN [agent EXCEPT !.messages = msgs, !.pending = rest,
                                !.toolCalls = @ + 1, !.lastExec = exec,
                                !.pc = "chat"]
             ELSE [agent EXCEPT !.messages = msgs, !.pending = rest,
                                !.toolCalls = @ + 1, !.lastExec = exec,
                                !.pc = "done",
                                !.outcome = "sentinel", !.content = Sentinel]
    /\ UNCHANGED <<queueVars, ingestVars, storeVars, pureVars>>

----------------------------------------------------------------------------
(* SlackAdapter on BaseAdapter.  connect has no suspension point, so its
   steps are not interleaved with other calls; disconnect suspends in
   app.stop(). *)

MaxAdapterCalls == 5   \* calls of connect, disconnect, start and stop made on the adapter

AdapterStatus == {"disconnected", "connecting", "connected", "error"}

(* BaseAdapter.setStatus *)
SetStatus(a, status) == [a EXCEPT !.status = status]

(* this.app = null *)
KeepApp(a) == a
ReleaseApp(a) == [a EXCEPT !.app = "null"]

(* The adapter after construction.  connectedOk tells whether a connect has
   succeeded since the last completed disconnect, step names the last step
   taken. *)
AdapterInit ==
    adapter = [status |-> "disconnected", app |-> "null", connecting |-> FALSE,
               stopsPending |-> 0, connectedOk |-> FALSE, step |-> "constructed",
               calls |-> 0]

AdapterCallable == ~adapter.connecting /\ adapter.calls < MaxAdapterCalls

AdapterStep(a, step) == [a EXCEPT !.step = step]
AdapterCall(a, step) == [a EXCEPT !.step = step, !.calls = a.calls + 1]

(* connect(): setStatus(CONNECTING) *)
ConnectBegin ==
    /\ AdapterCallable
    /\ adapter' = [AdapterCall(SetStatus(adapter, "connecting"), "connectBegin")
                      EXCEPT !.connecting = TRUE]
    /\ UNCHANGED <<queueVars, ingestVars, storeVars, agentVars, toolExec, ctx, proc>>

(* connect(): new App(...) and registerHandlers succeed, setStatus(CONNECTED) *)
ConnectNewApp ==
    /\ adapter.connecting
    /\ adapter' = [AdapterStep(SetStatus(adapter, "connected"), "connectOk")
                      EXCEPT !.app = "App", !.connecting = FALSE,
                             !.connectedOk = TRUE]
    /\ UNCHANGED <<queueVars, ingestVars, storeVars, agentVars, toolExec, ctx, proc>>

(* connect(): new App(...) throws; the catch sets ERROR and rethrows *)
ConnectNewAppThrows ==
    /\ adapter.connecting
    /\ adapter' = [AdapterStep(SetStatus(adapter, "error"), "connectFail")
                      EXCEPT !.connecting = FALSE]
    /\ UNCHANGED <<queueVars, ingestVars, storeVars, agentVars, toolExec, ctx, proc>>

(* The end of disconnect(): setStatus(DISCONNECTED) *)
Disconnected(a) ==
    [AdapterStep(SetStatus(a, "disconnected"), "disconnectDone")
        EXCEPT !.connectedOk = FALSE]

(* disconnect() with an app: it awaits app.stop() *)
DisconnectBegin ==
    /\ AdapterCallable /\ adapter.app # "null"
    /\ adapter' = [AdapterCall(adapter, "disconnectBegin")
                      EXCEPT !.stopsPending = adapter.stopsPending + 1]
    /\ UNCHANGED <<queueVars, ingestVars, storeVars, agentVars, toolExec, ctx, proc>>

(* disconnect() without an app *)
DisconnectNoApp ==
    /\ AdapterCallable /\ adapter.app = "null"
    /\ adapter' = [Disconnected(adapter) EXCEPT !.calls = adapter.calls + 1]
    /\ UNCHANGED <<queueVars, ingestVars, storeVars, agentVars, toolExec, ctx, proc>>

(* app.stop() resolves: this.app = null, setStatus(DISCONNECTED) *)
DisconnectStopResolves ==
    /\ ~adapter.connecting /\ adapter.stopsPending > 0
    /\ adapter' = [Disconnected(ReleaseApp(adapter))
                      EXCEPT !.stopsPending = adapter.stopsPending - 1]
    /\ UNCHANGED <<queueVars, ingestVars, storeVars, agentVars, toolExec, ctx, proc>>

(* app.stop() rejects: disconnect() rejects where it is *)
DisconnectStopRejects ==
    /\ ~adapter.connecting /\ adapter.stopsPending > 0
    /\ adapter' = [AdapterStep(adapter, "disconnectFailed")
                      EXCEPT !.stopsPending = adapter.stopsPending - 1]
    /\ UNCHANGED <<queueVars, ingestVars, storeVars, agentVars, toolExec, ctx, proc>>

(* start(): without an app it throws 'Adapter not connected', with one it
   calls app.start() *)
AdapterStart ==
    /\ AdapterCallable
    /\ adapter' = AdapterCall(adapter, IF adapter.app = "null" THEN "startFailed"
                                       ELSE "startCalled")
    /\ UNCHANGED <<queueVars, ingestVars, storeVars, agentVars, toolExec, ctx, proc>>

(* stop(): app.stop() if there is an app; the app is kept *)
AdapterStop ==
    /\ AdapterCallable
    /\ adapter' = AdapterCall(adapter, "stopCalled")
    /\ UNCHANGED <<queueVars, ingestVars, storeVars, agentVars, toolExec, ctx, proc>>

----------------------------------------------------------------------------
(* Initial values *)

QueueInit  == jobs = <<>>
IngestInit == rawEvents = <<>> /\ processingQueue = <<>>
StoreInit  == chunks = <<>> /\ calls = <<>> /\ read = NoRead
AgentIdle  == agent = [pc |-> "idle"]
ProcIdle   == proc = [pc |-> "idle"]
PureIdle   == toolExec = [pc |-> "idle"] /\ ctx = [pc |-> "idle"] /\ ProcIdle /\ AdapterInit

(* The ingestion pipeline: IngestionWorker builds its QueueManager with
   {redis} only, so no defaultJobOptions override. *)
Init ==
    /\ QueueInit /\ queueDefaults = 0
    /\ IngestInit /\ StoreInit /\ AgentIdle /\ PureIdle

Next ==
    \/ AddEvent
    \/ IngestFetch
    \/ ProcessJobDedup
    \/ ProcessJobDedupThrows
    \/ ProcessJobCreate
    \/ ProcessJobCreateThrows
    \/ IngestComplete
    \/ IngestRedeliver
    \/ IngestPromote

Spec == Init /\ [][Next]_vars

(* The workers keep running: every step of the worker and of the database
   that stays possible is eventually taken; failures are not forced. *)
FairSpec ==
    /\ Init /\ [][Next]_vars
    /\ WF_vars(IngestFetch)
    /\ WF_vars(ProcessJobDedup)
    /\ WF_vars(ProcessJobCreate)
    /\ WF_vars(IngestComplete)
    /\ WF_vars(IngestPromote)

(* The QueueManager alone, with any defaultJobOptions.attempts and any
   per-job attempts option. *)
QueueSpecInit ==
    /\ QueueInit /\ queueDefaults \in 0..MaxAttemptsOpt
    /\ IngestInit /\ StoreInit /\ AgentIdle /\ PureIdle

QueueNext ==
    \/ QAdd
    \/ QFetch
    \/ QHandlerReturns
    \/ QHandlerThrows
    \/ QComplete
    \/ QPromote

QueueSpec == QueueSpecInit /\ [][QueueNext]_vars

----------------------------------------------------------------------------
(* Claims on the ingestion worker and the queue *)

(* C1: at most one RawEvent row exists for each (source, externalId) pair
   whose externalId is present, whatever the interleaving of the jobs. *)
C1_OneRowPerExternalId ==
    \A a, b \in DOMAIN rawEvents :
        ( /\ rawEvents[a].externalId # NoId
          /\ rawEvents[a].source = rawEvents[b].source
          /\ rawEvents[a].externalId = rawEvents[b].externalId ) => a = b

ProcessingJobsFor(r) ==
    {k \in DOMAIN processingQueue : processingQueue[k].rawEventId = r}

(* C4: when the handler of an ingestion job has returned, every row it
   inserted has exactly one job on the processing queue carrying its id, and
   the processing queue holds no job for anything else. *)
C4_EnqueuedForProcessing ==
    /\ \A j \in DOMAIN jobs :
          (jobs[j].pc = "returned" \/ jobs[j].state = "completed") =>
              \A r \in jobs[j].rows : Cardinality(ProcessingJobsFor(r)) = 1
    /\ \A k \in DOMAIN processingQueue :
          \E j \in DOMAIN jobs : processingQueue[k].rawEventId \in jobs[j].rows

RowIds == 1..(MaxJobs * MaxDeliveries)

RowHasStatus(r, statuses) ==
    r \in DOMAIN rawEvents /\ rawEvents[r].processingStatus \in statuses

(* C5: every RawEvent inserted with status pending eventually has status
   completed or failed. *)
C5_PipelineTerminates ==
    \A r \in RowIds :
        RowHasStatus(r, {"pending"}) ~> RowHasStatus(r, {"completed", "failed"})

(* C6: exceptions thrown by the handler and counted attempts agree and never
   exceed the job's attempts (3 when no option sets it); a failure
   reschedules the job while attemptsMade < attempts and fails it otherwise;
   a failed job stays failed. *)
C6_JobInv(job) ==
    /\ job.attemptsMade = job.thrown
    /\ job.attemptsMade <= job.attempts
    /\ job.state = "failed" => job.attemptsMade = job.attempts
    /\ job.state \in {"delayed"} => job.attemptsMade < job.attempts
    /\ (job.optAttempts = 0 /\ queueDefaults = 0) => job.attempts = 3

C6_JobStep(old, new) ==
    /\ old.state = "failed" => new.state = "failed"
    /\ new.thrown # old.thrown =>
          /\ new.attemptsMade = old.attemptsMade + 1
          /\ new.state = IF new.attemptsMade < old.attempts THEN "delayed" ELSE "failed"

C6_RetryPolicy ==
    /\ [](\A j \in DOMAIN jobs : C6_JobInv(jobs[j]))
    /\ [][\A j \in DOMAIN jobs : C6_JobStep(jobs[j], jobs'[j])]_vars

C6_Witness ==
    \E j \in DOMAIN jobs :
        /\ jobs[j].state = "failed" /\ jobs[j].thrown = 3
        /\ jobs[j].optAttempts = 0 /\ queueDefaults = 0

(* C7: the delay of a job rescheduled after its k-th failure is
   min(2000 * 2^(k-1), 30000) ms, so never above 30 s. *)
C7_BackoffCapped ==
    \A j \in DOMAIN jobs :
        jobs[j].state = "delayed" =>
            /\ jobs[j].delay = Min(2000 * Pow2(jobs[j].attemptsMade - 1), 30000)
            /\ jobs[j].delay <= 30000

(* C8: delivering an ingestion job again adds no row: the rows a job has
   inserted are at most one, however often it was delivered. *)
C8_Idempotent ==
    \A j \in DOMAIN jobs : Cardinality(jobs[j].rows) <= 1

(* Concurrent callers of VectorStore.store *)
StoreSpecInit ==
    /\ QueueInit /\ queueDefaults = 0
    /\ IngestInit /\ StoreInit /\ AgentIdle /\ PureIdle

StoreNext ==
    \/ StoreStart
    \/ StoreFindUnique
    \/ StoreInsert

StoreSpec == StoreSpecInit /\ [][StoreNext]_vars

----------------------------------------------------------------------------
(* Claims on VectorStore.store *)

StoreFinished(c) == calls[c].pc \in {"returned", "threw"}

(* C2: at most one KnowledgeChunk row exists per contentHash, and every store
   call whose contentHash was already stored when it began returns the id of
   that row. *)
C2_DedupByContentHash ==
    /\ \A a, b \in DOMAIN chunks :
          chunks[a].contentHash = chunks[b].contentHash => a = b
    /\ \A c \in DOMAIN calls :
          (calls[c].existing # 0 /\ StoreFinished(c)) =>
              calls[c].pc = "returned" /\ calls[c].result = calls[c].existing

C2_Witness ==
    \E c \in DOMAIN calls :
        calls[c].existing # 0 /\ calls[c].pc = "returned" /\ Len(chunks) = 2

(* C3: store calls with the same contentHash that ran concurrently all
   complete successfully and return the same chunk id: no call ends with an
   error because of the duplicate. *)
C3_DuplicateIsSuccess ==
    \A c, d \in DOMAIN calls :
        (StoreFinished(c) /\ StoreFinished(d) /\ calls[c].hash = calls[d].hash) =>
            /\ calls[c].pc = "returned" /\ calls[d].pc = "returned"
            /\ calls[c].result = calls[d].result

(* One run of the agent loop, for any configured maxIterations and history *)
AgentSpecInit ==
    /\ QueueInit /\ queueDefaults = 0
    /\ IngestInit /\ StoreInit /\ PureIdle
    /\ \E cfg \in 0..MaxIterationsCfg, history \in Histories :
          agent = AgentLoopStart(cfg, history)

AgentNext ==
    \/ LlmRespondsFinal
    \/ LlmRespondsToolCalls
    \/ LlmThrows
    \/ ExecuteToolCall

AgentSpec == AgentSpecInit /\ [][AgentNext]_vars

----------------------------------------------------------------------------
(* Claims on the agent loop *)

AgentEnded == agent.pc \in {"done", "error"}

(* C9 as stated: every run ends after at most maxIterations chat calls with,
   as outcome, the text of a tool-free response or the sentinel; iterations
   is the number of chat calls. *)
C9_OutcomeTextOrSentinel ==
    AgentEnded =>
        /\ agent.llmCalls <= agent.maxIterations
        /\ agent.iterations = agent.llmCalls
        /\ \/ agent.outcome = "final" /\ agent.lastResponse = "text"
                 /\ agent.content = agent.lastText
           \/ agent.outcome = "sentinel" /\ agent.content = Sentinel

(* C9 amended: a run never makes more than maxIterations chat calls and
   iterations counts them; a run that returns has as content the text of a
   tool-free response or, after maxIterations calls that all asked for tools,
   the sentinel; a run whose chat call throws ends with the error and no
   content. *)
C9_LoopBounded ==
    /\ agent.pc # "idle" =>
          /\ agent.llmCalls <= agent.maxIterations
          /\ agent.iterations = agent.llmCalls
    /\ agent.pc = "done" =>
          \/ agent.outcome = "final" /\ agent.lastResponse = "text"
                /\ agent.content = agent.lastText
          \/ agent.outcome = "sentinel" /\ agent.content = Sentinel
                /\ agent.lastResponse = "tools"
                /\ agent.llmCalls = agent.maxIterations
    /\ agent.pc = "error" =>
          agent.outcome = "error" /\ agent.lastResponse = "throw"

C9_Witness ==
    /\ agent.pc = "done" /\ agent.outcome = "sentinel"
    /\ agent.llmCalls = DefaultMaxIterations

ToolMessagesFor(id) ==
    {i \in DOMAIN agent.messages :
        agent.messages[i].role = "tool" /\ agent.messages[i].tool_call_id = id}

(* C10: at every chat call after the first, the blocks of every assistant
   tool_use message are answered, in their order, by the tool messages that
   directly follow it, one per block and no other message carries the
   block's id; every tool message answers a block of an earlier assistant
   message. *)
C10_ToolUseAnswered ==
    (agent.pc = "chat" /\ agent.llmCalls >= 1) =>
        LET M == agent.messages IN
        /\ \A a \in DOMAIN M :
              \A b \in DOMAIN M[a].blocks :
                  /\ a + b \in DOMAIN M
                  /\ M[a + b].role = "tool"
                  /\ M[a + b].tool_call_id = M[a].blocks[b].id
                  /\ ToolMessagesFor(M[a].blocks[b].id) = {a + b}
        /\ \A i \in DOMAIN M :
              M[i].role = "tool" =>
                  \E a \in 1..(i - 1) :
                      /\ M[a].role = "assistant"
                      /\ \E b \in DOMAIN M[a].blocks :
                            M[a].blocks[b].id = M[i].tool_call_id

C10_Witness ==
    /\ agent.pc = "chat" /\ agent.llmCalls >= 2
    /\ \E a \in DOMAIN agent.messages : Len(agent.messages[a].blocks) = 2

(* ToolRegistry.execute on any tool name, arguments and handler behaviour *)
ToolSpecInit ==
    /\ QueueInit /\ queueDefaults = 0
    /\ IngestInit /\ StoreInit /\ AgentIdle
    /\ ctx = [pc |-> "idle"] /\ ProcIdle /\ AdapterInit
    /\ \E name \in RegisteredTools \cup ToolNames, args \in ToolArgs,
          behaviour \in HandlerBehaviours :
          toolExec = [pc |-> "called", name |-> name, args |-> args,
                      behaviour |-> behaviour, result |-> NoResult]

ToolNext == ToolExecute

ToolSpec == ToolSpecInit /\ [][ToolNext]_vars

----------------------------------------------------------------------------
(* Claims on tool execution *)

(* The structured error object {success: false, error} of a failed result. *)
ErrorObject(result) == "{success:false,error:" \o result.error \o "}"

LastMessage == agent.messages[Len(agent.messages)]

(* C11: when a tool call of the agent loop fails, the tool message appended
   for it carries the structured error object {success: false, error}. *)
C11_ErrorInTranscript ==
    ( /\ agent.pc # "idle" /\ agent.lastExec.made
      /\ ~agent.lastExec.result.threw
      /\ ~agent.lastExec.result.success ) =>
        /\ LastMessage.role = "tool"
        /\ LastMessage.content = Stringify(ErrorObject(agent.lastExec.result))

(* C12: execute never throws; for an unregistered tool, invalid parameters
   or a handler that throws it returns success = false with an error
   message, its tool message is appended and the loop goes on with the
   remaining tool calls, the next chat call or the iteration limit. *)
C12_ExecuteNeverThrows ==
    (agent.pc # "idle" /\ agent.lastExec.made) =>
        LET exec == agent.lastExec IN
        /\ ~exec.result.threw
        /\ ( \/ exec.name \notin RegisteredTools
             \/ ~exec.valid
             \/ exec.behaviour \in {"throwsError", "throwsOther"} ) =>
               /\ exec.result.success = FALSE
               /\ exec.result.error # Undefined
        /\ LastMessage.role = "tool"
        /\ agent.pc = (IF agent.pending # <<>> THEN "tools"
                       ELSE IF agent.iterations < agent.maxIterations THEN "chat"
                       ELSE "done")

C12_Witness ==
    /\ agent.pc = "tools" /\ agent.lastExec.made
    /\ agent.lastExec.behaviour = "throwsError"
    /\ agent.lastExec.result.invoked
    /\ agent.lastExec.result.error = "handler error"

ParamWellTyped(param, args) ==
    /\ param.required => args[param.name] # "absent"
    /\ args[param.name] # "absent" => args[param.name] = param.type

(* C13: execute invokes the handler only if the tool is registered, every
   required parameter is present and every supplied parameter value has the
   declared type. *)
C13_HandlerOnlyIfValid ==
    (toolExec.pc = "returned" /\ toolExec.result.invoked) =>
        /\ toolExec.name \in RegisteredTools
        /\ \A i \in DOMAIN ToolParameters(toolExec.name) :
              ParamWellTyped(ToolParameters(toolExec.name)[i], toolExec.args)

(* ContextBuilder.buildContext on any options, history and retrieved chunks *)
NoContext ==
    [maxTokens |-> 0, systemPrompt |-> 0, conversationHistory |-> <<>>,
     knowledgeContext |-> 0, chunksUsed |-> 0, totalTokens |-> 0]

ContextSpecInit ==
    /\ QueueInit /\ queueDefaults = 0
    /\ IngestInit /\ StoreInit /\ AgentIdle
    /\ toolExec = [pc |-> "idle"] /\ ProcIdle /\ AdapterInit
    /\ \E maxTokens \in MaxTokensOpts, systemPrompt \in SystemPromptLens,
          includeHistory \in BOOLEAN, maxHistory \in MaxHistoryOpts,
          history \in CtxHistories, chunkList \in CtxChunkLists :
          ctx = [pc |-> "called",
                 options |-> [maxTokens |-> maxTokens,
                              systemPrompt |-> systemPrompt,
                              includeHistory |-> includeHistory,
                              maxHistory |-> maxHistory],
                 history |-> history, retrieved |-> chunkList,
                 result |-> NoContext]

ContextNext == BuildContext

ContextSpec == ContextSpecInit /\ [][ContextNext]_vars

----------------------------------------------------------------------------
(* Claims on the context builder *)

(* C14: the context buildContext returns has an estimated token count
   (system prompt + included history + knowledgeContext, reported as
   totalTokens) of at most maxTokens. *)
C14_ContextWithinBudget ==
    ctx.pc = "returned" =>
        /\ ctx.result.totalTokens =
              EstimateTokens(ctx.result.systemPrompt)
              + HistoryTokens(ctx.result.conversationHistory)
              + EstimateTokens(ctx.result.knowledgeContext)
        /\ ctx.result.totalTokens <= ctx.result.maxTokens


(* VectorStore.search on any table of at most MaxInitChunks rows: rows of
   any tier (the lifecycle management the tier column is for moves them),
   source type and embedding, in created_at order. *)
InitialRow(i, c) ==
    [ contentHash    |-> "row" \o ToString(i),
      sourceType     |-> c.sourceType,
      meta           |-> "m1",
      embedding      |-> c.embedding,
      tier           |-> c.tier,
      accessCount    |-> 0,
      lastAccessedAt |-> 0,
      createdAt      |-> i ]

InitialTables ==
    UNION { { [i \in 1..n |-> InitialRow(i, cs[i])] :
                cs \in [1..n -> [sourceType : SourceTypes, embedding : {1, 3},
                                 tier : Tiers]] } : n \in 0..MaxInitChunks }

SearchSpecInit ==
    /\ QueueInit /\ queueDefaults = 0
    /\ IngestInit /\ AgentIdle /\ PureIdle
    /\ chunks \in InitialTables /\ calls = <<>> /\ read = NoRead

SearchNext ==
    \/ SearchStart
    \/ SearchSelect
    \/ SearchSelectThrows
    \/ UpdateAccessStats
    \/ UpdateAccessStatsFails

SearchSpec == SearchSpecInit /\ [][SearchNext]_vars


----------------------------------------------------------------------------
(* Claims on search *)

SearchReturned ==
    read.stage = "search" /\ read.pc \in {"update", "returned"}

ResultSimilarity(i) == Similarity(chunks[read.result[i]].embedding, read.query)

ThresholdInForce ==
    IF read.opts.similarityThreshold = 0 THEN 70
    ELSE read.opts.similarityThreshold

(* C15: the results of search are in non-increasing order of similarity and
   every similarity is at least the threshold in force. *)
C15_SimilarityOrdered ==
    SearchReturned =>
        /\ \A i \in DOMAIN read.result : ResultSimilarity(i) >= ThresholdInForce
        /\ \A i, j \in DOMAIN read.result :
              i < j => ResultSimilarity(i) >= ResultSimilarity(j)

C15_Witness ==
    /\ read.op = "search" /\ read.pc = "returned" /\ Len(read.result) = 2
    /\ ResultSimilarity(1) > ResultSimilarity(2)

(* C16: among results of equal similarity the chunk with the newer
   created_at comes first (ids order those equal in created_at too), so the
   result is determined by the table. *)
C16_TieBreakNewerFirst ==
    SearchReturned =>
        \A i, j \in DOMAIN read.result :
            (i < j /\ ResultSimilarity(i) = ResultSimilarity(j)) =>
                chunks[read.result[i]].createdAt > chunks[read.result[j]].createdAt

TopKInForce == IF read.opts.topK = 0 THEN 20 ELSE read.opts.topK

TiersInForce ==
    IF read.opts.tiers.given THEN read.opts.tiers.set ELSE {"hot", "warm"}

Allowed(i) ==
    /\ chunks[i].tier \in TiersInForce
    /\ read.opts.sourceTypes # {} => chunks[i].sourceType \in read.opts.sourceTypes

(* C17: search returns at most topK rows (20 by default), each of an allowed
   tier (hot or warm by default) and, if source types are given, of one of
   them; no allowed row at or above the threshold that is more similar than
   a returned row is left out. *)
C17_FiltersAndTopK ==
    SearchReturned =>
        /\ Len(read.result) <= TopKInForce
        /\ \A i \in DOMAIN read.result : Allowed(read.result[i])
        /\ \A x \in DOMAIN chunks \ Range(read.result) :
              ( /\ Allowed(x)
                /\ Similarity(chunks[x].embedding, read.query) >= ThresholdInForce )
              => \A i \in DOMAIN read.result :
                    Similarity(chunks[x].embedding, read.query) <= ResultSimilarity(i)

C17_Witness ==
    /\ read.op = "search" /\ read.pc = "returned" /\ Len(read.result) = 1
    /\ ~read.opts.tiers.given
    /\ \E x \in DOMAIN chunks :
          /\ chunks[x].tier = "cold"
          /\ Similarity(chunks[x].embedding, read.query) > ResultSimilarity(1)

(* The update of the access statistics of the rows in R at time now, and
   nothing else. *)
Touched(R, now) ==
    /\ DOMAIN chunks' = DOMAIN chunks
    /\ \A i \in DOMAIN chunks :
          chunks'[i] =
             IF i \in R
             THEN [chunks[i] EXCEPT !.accessCount = chunks[i].accessCount + 1,
                                    !.lastAccessedAt = now]
             ELSE chunks[i]

(* C18 as stated: a search that returns R increments access_count by 1 and
   sets last_accessed_at for the rows in R in its one update, and changes
   nothing else. *)
C18_SearchCountsAccess ==
    [][ IF read.pc = "update" THEN Touched(Range(read.result), read.seq)
        ELSE UNCHANGED chunks ]_vars

(* C18 amended: the one update of a search that returns R increments
   access_count by 1 and sets last_accessed_at for the rows in R and changes
   nothing else, or it fails, and then the search changes nothing. *)
C18_SearchCountsAccessOrFails ==
    [][ IF read.pc = "update"
        THEN \/ Touched(Range(read.result), read.seq) /\ ~read'.statsFailed
             \/ UNCHANGED chunks /\ read'.statsFailed
        ELSE UNCHANGED chunks ]_vars

C18_Witness ==
    /\ read.op = "search" /\ read.pc = "returned" /\ ~read.statsFailed
    /\ Len(read.result) = 1 /\ Len(chunks) = 2
    /\ chunks[read.result[1]].accessCount = 2
    /\ chunks[read.result[1]].lastAccessedAt = read.seq
    /\ \E x \in DOMAIN chunks : chunks[x].accessCount = 0

(* store and every read of the table, from the empty table *)
MemStoreStart == Len(calls) < MaxMemStores /\ StoreStart

MemorySpecInit ==
    /\ QueueInit /\ queueDefaults = 0
    /\ IngestInit /\ StoreInit /\ AgentIdle /\ PureIdle

MemoryNext ==
    \/ MemStoreStart
    \/ StoreFindUnique
    \/ StoreInsert
    \/ SearchStart
    \/ SearchSelect
    \/ SearchSelectThrows
    \/ UpdateAccessStats
    \/ UpdateAccessStatsFails
    \/ GetByIdStart
    \/ GetByIdFind
    \/ FindSimilarStart
    \/ FindSimilarNoEmbedding
    \/ FindSimilarSearch
    \/ GetBySource

MemorySpec == MemorySpecInit /\ [][MemoryNext]_vars

(* C19: a chunk is created with tier hot and access_count 0; whatever store,
   search, getById, getBySource and findSimilar do, no row disappears, no
   access_count decreases and every tier is hot, warm or cold. *)
C19_CountMonotoneTierValid ==
    /\ [](\A i \in DOMAIN chunks : chunks[i].tier \in {"hot", "warm", "cold"})
    /\ [][ /\ \A i \in DOMAIN chunks :
                /\ i \in DOMAIN chunks'
                /\ chunks'[i].accessCount >= chunks[i].accessCount
           /\ \A i \in DOMAIN chunks' \ DOMAIN chunks :
                chunks'[i].tier = "hot" /\ chunks'[i].accessCount = 0 ]_vars

C19_Witness ==
    /\ Len(chunks) = 1 /\ chunks[1].tier = "hot"
    /\ chunks[1].accessCount >= 2
    /\ read.op = "findSimilar" /\ read.pc = "returned"

(* C20: a step of a store call whose contentHash is already in the table
   leaves the table as it is, whatever source type, source id, metadata and
   importance the call carries. *)
C20_DuplicateStoreChangesNothing ==
    [][ \A c \in DOMAIN calls :
          ( /\ calls'[c].pc # calls[c].pc
            /\ \E i \in DOMAIN chunks : chunks[i].contentHash = calls[c].hash )
          => chunks' = chunks ]_vars

C20_Witness ==
    \E c \in DOMAIN calls :
        /\ calls[c].pc = "returned" /\ calls[c].existing # 0
        /\ calls[c].result = calls[c].existing
        /\ chunks[calls[c].result].meta # calls[c].origin.meta
        /\ chunks[calls[c].result].sourceType # calls[c].origin.sourceType

----------------------------------------------------------------------------
(* MemoryRetrievalService: relevance scores.  Similarity and importance are
   in hundredths, the relevance score in ten-thousandths, so that
   0.7 * similarity + 0.3 * importance is 70 * s + 30 * i. *)

MaxScored == 2   \* search results scored by one call

SimilarityWeight  == 70
ImportanceWeight  == 30
DefaultImportance == 50

(* knowledge_chunks.importance_score is nullable: a row stores a value or
   none. *)
NoImportance == [stored |-> FALSE, value |-> 0]
StoredImportance(v) == [stored |-> TRUE, value |-> v]

ImportanceValues == {0, 40, 50, 100}
SimilarityValues == {50, 70, 100}
ImportanceScores == {NoImportance} \cup {StoredImportance(v) : v \in ImportanceValues}

(* JavaScript truthiness of a nullable number: null, undefined and 0 are falsy. *)
Truthy(score) == score.stored /\ score.value # 0

(* result.chunk.importanceScore || undefined *)
OrUndefined(score) == IF Truthy(score) THEN score ELSE NoImportance

(* (chunk.importanceScore || 0.5) *)
OrDefaultImportance(score) == IF Truthy(score) THEN score.value ELSE DefaultImportance

MapToRetrievedChunk(result) ==
    [id |-> result.id, similarity |-> result.similarity,
     importanceScore |-> OrUndefined(result.importanceScore)]

CalculateRelevanceScore(chunk) ==
    [id |-> chunk.id, similarity |-> chunk.similarity,
     importanceScore |-> chunk.importanceScore,
     relevanceScore |-> chunk.similarity * SimilarityWeight
                        + OrDefaultImportance(chunk.importanceScore) * ImportanceWeight]

(* mapToRetrievedChunks followed by calculateRelevanceScores. *)
ScoreResults(results) ==
    [i \in DOMAIN results |-> CalculateRelevanceScore(MapToRetrievedChunk(results[i]))]

ScoredInputs ==
    UNION {[1..n -> [similarity : SimilarityValues, importanceScore : ImportanceScores]]
              : n \in 0..MaxScored}

WithIds(list) ==
    [i \in DOMAIN list |-> [id |-> i, similarity |-> list[i].similarity,
                            importanceScore |-> list[i].importanceScore]]

ScoreCall ==
    /\ proc.pc = "called" /\ proc.op = "score"
    /\ proc' = [proc EXCEPT !.pc = "returned", !.chunks = ScoreResults(proc.results)]
    /\ UNCHANGED <<queueVars, ingestVars, storeVars, agentVars, toolExec, ctx, adapter>>

ScoreSpecInit ==
    /\ QueueInit /\ queueDefaults = 0
    /\ IngestInit /\ StoreInit /\ AgentIdle
    /\ toolExec = [pc |-> "idle"] /\ ctx = [pc |-> "idle"] /\ AdapterInit
    /\ \E list \in ScoredInputs :
          proc = [pc |-> "called", op |-> "score", results |-> WithIds(list),
                  chunks |-> <<>>]

ScoreNext == ScoreCall

ScoreSpec == ScoreSpecInit /\ [][ScoreNext]_vars

(* The importance the relevance score is specified to use: the stored value,
   0.5 only when none is stored. *)
SpecifiedImportance(score) == IF score.stored THEN score.value ELSE DefaultImportance

(* C21: every chunk returned by MemoryRetrievalService.search has
   relevanceScore = 0.7 * similarity + 0.3 * importance, where importance is
   the stored importance score for every stored value in [0,1] and 0.5 only
   when no importance is stored. *)
C21_RelevanceUsesStoredImportance ==
    (proc.pc = "returned" /\ proc.op = "score") =>
        \A i \in DOMAIN proc.chunks :
            proc.chunks[i].relevanceScore =
                proc.results[i].similarity * SimilarityWeight
                + SpecifiedImportance(proc.results[i].importanceScore) * ImportanceWeight

----------------------------------------------------------------------------
(* MemoryRetrievalService.rerankResults.  The chunk list is the list of
   scored chunks in pre-rerank order; the LLM response is a sequence of
   tokens, each a maximal run of digits or a piece of other text. *)

MaxRerankLen   == 11  \* chunks handed to the rerank step
MaxResponseLen == 2   \* tokens of an arbitrary rerank response

RerankTopN == 10

TextToken == [digits |-> FALSE, value |-> 0]
DigitsToken(n) == [digits |-> TRUE, value |-> n]
ResponseTokens == {TextToken} \cup {DigitsToken(n) : n \in 0..MaxRerankLen}

IdentityResponse(k) == [i \in 1..k |-> DigitsToken(i - 1)]
ReversedResponse(k) == [i \in 1..k |-> DigitsToken(k - i)]

(* What the rerank client can do: throw, answer without content, or answer
   with some text. *)
LlmThrew   == [outcome |-> "throws", content |-> <<>>]
LlmNoContent == [outcome |-> "undefined", content |-> <<>>]
LlmContent(tokens) == [outcome |-> "content", content |-> tokens]

RerankResponses ==
    {LlmThrew, LlmNoContent}
    \cup {LlmContent(t) : t \in UNION {[1..n -> ResponseTokens] : n \in 0..MaxResponseLen}}
    \cup {LlmContent(IdentityResponse(k)) : k \in 0..MaxRerankLen}
    \cup {LlmContent(ReversedResponse(k)) : k \in 0..MaxRerankLen}

(* response.match(/\d+/g) mapped through parseInt; a response without
   content makes match throw, which the parser catches. *)
ParseRankingResponse(response) ==
    IF response.outcome # "content" THEN <<>>
    ELSE LET matches == SelectSeq(response.content, LAMBDA t : t.digits)
         IN  [i \in DOMAIN matches |-> matches[i].value]

RerankChunks(n) == [i \in 1..n |-> [id |-> n + 1 - i]]

ToRerankAll(list) == list
ToRerank(list) == SubSeq(list, 1, Min(Len(list), RerankTopN))

Rest(list) == SubSeq(list, Min(Len(list), RerankTopN) + 1, Len(list))

(* ranking.map(index => toRerank[index]).filter(c => c !== undefined) *)
Reranked(toRerank, ranking) ==
    LET defined == SelectSeq(ranking, LAMBDA index : index + 1 \in DOMAIN toRerank)
    IN  [i \in DOMAIN defined |-> toRerank[defined[i] + 1]]

UnrankedKeepsAll(toRerank, reranked) == toRerank
Unranked(toRerank, reranked) ==
    LET rankedIds == {reranked[i].id : i \in DOMAIN reranked}
    IN  SelectSeq(toRerank, LAMBDA c : c.id \notin rankedIds)

RerankRethrow(list) == [ok |-> FALSE, chunks |-> <<>>]
RerankCatch(list) == [ok |-> TRUE, chunks |-> list]

RerankResults(list, response) ==
    IF response.outcome = "throws" THEN RerankCatch(list)
    ELSE LET toRerank == ToRerank(list)
             reranked == Reranked(toRerank, ParseRankingResponse(response))
         IN  [ok |-> TRUE,
              chunks |-> reranked \o Unranked(toRerank, reranked) \o Rest(list)]

(* The rerank step of MemoryRetrievalService.search. *)
RerankStep(rerank, hasClient, list, response) ==
    IF rerank /\ hasClient /\ Len(list) > 0
    THEN RerankResults(list, response)
    ELSE [ok |-> TRUE, chunks |-> list]

RerankCall ==
    /\ proc.pc = "called" /\ proc.op = "rerank"
    /\ proc' = [proc EXCEPT !.pc = "returned",
                            !.result = RerankStep(proc.rerank, proc.hasClient,
                                                  proc.chunks, proc.response)]
    /\ UNCHANGED <<queueVars, ingestVars, storeVars, agentVars, toolExec, ctx, adapter>>

RerankSpecInit ==
    /\ QueueInit /\ queueDefaults = 0
    /\ IngestInit /\ StoreInit /\ AgentIdle
    /\ toolExec = [pc |-> "idle"] /\ ctx = [pc |-> "idle"] /\ AdapterInit
    /\ \E n \in 0..MaxRerankLen, response \in RerankResponses,
          rerank \in BOOLEAN, hasClient \in BOOLEAN :
          proc = [pc |-> "called", op |-> "rerank", rerank |-> rerank,
                  hasClient |-> hasClient, chunks |-> RerankChunks(n),
                  response |-> response, result |-> [ok |-> TRUE, chunks |-> <<>>]]

RerankNext == RerankCall

RerankSpec == RerankSpecInit /\ [][RerankNext]_vars

RerankReturned == proc.pc = "returned" /\ proc.op = "rerank"
RerankRan == RerankReturned /\ proc.rerank /\ proc.hasClient /\ Len(proc.chunks) > 0

(* Positions of the first ten hits the response names, in the response's order. *)
NamedPositions ==
    LET ranking == ParseRankingResponse(proc.response)
        valid == SelectSeq(ranking,
                           LAMBDA index : index < Min(Len(proc.chunks), RerankTopN))
    IN  [i \in DOMAIN valid |-> valid[i] + 1]

(* C22: with rerank enabled, if the rerank LLM call throws or its response
   holds no usable index list, the search still succeeds and returns the
   chunks in exactly the pre-rerank order. *)
C22_RerankFailureKeepsOrder ==
    (RerankReturned /\ proc.rerank
        /\ (proc.response.outcome = "throws" \/ NamedPositions = <<>>))
    => (proc.result.ok /\ proc.result.chunks = proc.chunks)

C22_Witness ==
    /\ RerankRan /\ Len(proc.chunks) >= 2
    /\ proc.response.outcome = "throws"
    /\ proc.result.ok /\ proc.result.chunks = proc.chunks

(* C23: a rerank LLM that answers the identity index list 0,1,...,k-1
   (k = number of reranked chunks) yields exactly the pre-rerank list, for
   every result list length. *)
C23_RerankIdentity ==
    (RerankRan
        /\ proc.response = LlmContent(IdentityResponse(Min(Len(proc.chunks), RerankTopN))))
    => (proc.result.ok /\ proc.result.chunks = proc.chunks)

C23_Witness ==
    /\ RerankRan /\ Len(proc.chunks) > RerankTopN
    /\ proc.response = LlmContent(IdentityResponse(RerankTopN))
    /\ proc.result.chunks = proc.chunks

(* C24: reranking reorders only the first 10 hits: the chunks the LLM names
   come first in the LLM's order, the chunks among the first 10 it does not
   name follow in their original relative order, and the hits at positions
   11 and beyond are appended unchanged in their original order. *)
C24_RerankOnlyFirstTen ==
    (RerankRan /\ proc.response.outcome = "content") =>
        LET out == proc.result.chunks
            named == NamedPositions
            topN == Min(Len(proc.chunks), RerankTopN)
            unnamed == SelectSeq([i \in 1..topN |-> i],
                                 LAMBDA p : \A j \in DOMAIN named : named[j] # p)
        IN  /\ Len(out) = Len(named) + Len(unnamed) + (Len(proc.chunks) - topN)
            /\ \A j \in DOMAIN named : out[j] = proc.chunks[named[j]]
            /\ \A j \in DOMAIN unnamed : out[Len(named) + j] = proc.chunks[unnamed[j]]
            /\ \A p \in (topN + 1)..Len(proc.chunks) :
                   out[Len(named) + Len(unnamed) + (p - topN)] = proc.chunks[p]

C24_Witness ==
    /\ RerankRan /\ Len(proc.chunks) > RerankTopN
    /\ proc.response = LlmContent(<<DigitsToken(3), DigitsToken(0)>>)
    /\ proc.result.chunks[1] = proc.chunks[4]
    /\ proc.result.chunks[2] = proc.chunks[1]
    /\ proc.result.chunks[3] = proc.chunks[2]
    /\ proc.result.chunks[Len(proc.chunks)] = proc.chunks[Len(proc.chunks)]

----------------------------------------------------------------------------
(* SummarizationProcessor.  A text is given by its runs of equal characters
   (a word character "a" or a space) and handled as the sequence of its
   characters. *)

MaxRuns == 3   \* runs of equal characters in an extracted text

FallbackMaxLength == 200

RunLens  == {1, 100, 199, 200}
RunChars == {"a", " "}
RunTexts == UNION {[1..n -> [ch : RunChars, len : RunLens]] : n \in 0..MaxRuns}

RECURSIVE Chars(_)
Chars(runs) ==
    IF runs = <<>> THEN <<>>
    ELSE [i \in 1..Head(runs).len |-> Head(runs).ch] \o Chars(Tail(runs))

Ellipsis == <<".", ".", ".">>

(* String.prototype.substring(0, end): a negative end counts as 0, an end
   beyond the text as its length. *)
Substring0(text, end) ==
    SubSeq(text, 1, IF end < 0 THEN 0 ELSE Min(end, Len(text)))

(* String.prototype.indexOf / lastIndexOf of one character: 0-based, -1 when
   the character does not occur. *)
Positions(text, c) == {p \in DOMAIN text : text[p] = c}

IndexOf(text, c) ==
    IF Positions(text, c) = {} THEN -1
    ELSE (CHOOSE p \in Positions(text, c) : \A q \in Positions(text, c) : p <= q) - 1

LastIndexOf(text, c) ==
    IF Positions(text, c) = {} THEN -1
    ELSE (CHOOSE p \in Positions(text, c) : \A q \in Positions(text, c) : p >= q) - 1

(* String.prototype.trim *)
RECURSIVE TrimStart(_)
TrimStart(text) ==
    IF text # <<>> /\ Head(text) = " " THEN TrimStart(Tail(text)) ELSE text

RECURSIVE TrimEnd(_)
TrimEnd(text) ==
    IF text # <<>> /\ text[Len(text)] = " "
    THEN TrimEnd(SubSeq(text, 1, Len(text) - 1)) ELSE text

Trim(text) == TrimEnd(TrimStart(text))

FallbackSummary(text) ==
    IF Len(text) <= FallbackMaxLength THEN text
    ELSE LET truncated == Substring0(text, FallbackMaxLength)
             lastSpace == LastIndexOf(truncated, " ")
         IN  Substring0(truncated, lastSpace) \o Ellipsis

(* What llmClient.complete can do: throw, answer without content, or answer
   with a text and the tokens it used. *)
SummaryContents == {<<[ch |-> "a", len |-> 2]>>,
                    <<[ch |-> " ", len |-> 1], [ch |-> "a", len |-> 2],
                      [ch |-> " ", len |-> 2]>>}
SummaryTokens == {57}
SummaryResponses ==
    {[outcome |-> "throws", content |-> <<>>, tokensUsed |-> 0],
     [outcome |-> "undefined", content |-> <<>>, tokensUsed |-> 0]}
    \cup [outcome : {"content"}, content : SummaryContents, tokensUsed : SummaryTokens]

SummaryRethrow(text) == [threw |-> TRUE, summary |-> <<>>, tokensUsed |-> 0]
SummaryCatch(text) ==
    [threw |-> FALSE, summary |-> FallbackSummary(text), tokensUsed |-> 0]

(* summarize: the result is the enriched event extended by summary and
   tokensUsed; `threw` tells whether the call threw instead of returning. *)
Summarize(text, response) ==
    IF response.outcome = "content"
    THEN [threw |-> FALSE, summary |-> Trim(Chars(response.content)),
          tokensUsed |-> response.tokensUsed]
    ELSE SummaryCatch(text)

SummarizeCall ==
    /\ proc.pc = "called" /\ proc.op = "summarize"
    /\ proc' = [proc EXCEPT !.pc = "returned",
                            !.result = Summarize(Chars(proc.extractedText),
                                                 proc.response)]
    /\ UNCHANGED <<queueVars, ingestVars, storeVars, agentVars, toolExec, ctx, adapter>>

SummarySpecInit ==
    /\ QueueInit /\ queueDefaults = 0
    /\ IngestInit /\ StoreInit /\ AgentIdle
    /\ toolExec = [pc |-> "idle"] /\ ctx = [pc |-> "idle"] /\ AdapterInit
    /\ \E text \in RunTexts, response \in SummaryResponses :
          proc = [pc |-> "called", op |-> "summarize", extractedText |-> text,
                  response |-> response,
                  result |-> [threw |-> FALSE, summary |-> <<>>, tokensUsed |-> 0]]

SummaryNext == SummarizeCall

SummarySpec == SummarySpecInit /\ [][SummaryNext]_vars

SummarizeReturned == proc.pc = "returned" /\ proc.op = "summarize"
LlmFailed == proc.response.outcome # "content"

(* C25: summarize never fails the job: for every enriched event and every
   failure of the LLM call it returns a summarized event with tokensUsed = 0
   instead of throwing. *)
C25_SummarizeNeverThrows ==
    (SummarizeReturned /\ LlmFailed) =>
        (~proc.result.threw /\ proc.result.tokensUsed = 0)

C25_Witness ==
    /\ SummarizeReturned /\ proc.response.outcome = "throws"
    /\ Len(Chars(proc.extractedText)) > FallbackMaxLength
    /\ ~proc.result.threw /\ proc.result.tokensUsed = 0

(* A prefix length b of the text is a word boundary when the next character
   is a space, or when b is 0. *)
WordBoundary(text, b) == b = 0 \/ (b < Len(text) /\ text[b + 1] = " ")

(* C26 (as stated): when the LLM fails, the summary of an extracted text of
   any length is a prefix of the text of at most 200 characters that ends at
   a word boundary, followed by `...`. *)
C26_FallbackAlwaysEllipsis ==
    (SummarizeReturned /\ LlmFailed) =>
        LET text == Chars(proc.extractedText)
        IN  \E b \in 0..Min(FallbackMaxLength, Len(text)) :
                /\ WordBoundary(text, b)
                /\ proc.result.summary = SubSeq(text, 1, b) \o Ellipsis

(* C26 (amended): when the LLM fails, a text of at most 200 characters is
   its own summary, without ellipsis; a longer text is cut before the last
   space among its first 200 characters (to the empty prefix when they hold
   no space) and `...` is appended. *)
C26_FallbackTruncatesLongText ==
    (SummarizeReturned /\ LlmFailed) =>
        LET text == Chars(proc.extractedText)
            spaces == {p \in 1..Min(FallbackMaxLength, Len(text)) : text[p] = " "}
        IN  IF Len(text) <= FallbackMaxLength
            THEN proc.result.summary = text
            ELSE \E b \in 0..(FallbackMaxLength - 1) :
                    /\ WordBoundary(text, b)
                    /\ \A p \in spaces : p <= b + 1
                    /\ (spaces = {} => b = 0)
                    /\ (spaces # {} => b + 1 \in spaces)
                    /\ proc.result.summary = SubSeq(text, 1, b) \o Ellipsis

C26_Witness ==
    /\ SummarizeReturned /\ LlmFailed
    /\ Len(Chars(proc.extractedText)) > FallbackMaxLength
    /\ Len(proc.result.summary) = FallbackMaxLength + 2
    /\ SubSeq(proc.result.summary, FallbackMaxLength, FallbackMaxLength + 2) = Ellipsis

----------------------------------------------------------------------------
(* EnrichmentProcessor.calculateImportance, in hundredths. *)

BaseImportance  == 50
ThreadPenalty   == 10
ReactionsBonus  == 20
PriorityBonus   == 30
LinksBonus      == 10
MentionsBonus   == 15
LongTextBonus   == 10
LongTextLength  == 200

EventSources   == {"slack", "jira", "git", "other"}
PriorityValues == {"none", "Low", "High", "Critical"}
ReactionCounts == {0, 2}
TextLengths    == {0, 200, 201}

(* The fields of a RawEvent payload and of the extracted entities that
   calculateImportance reads; reactions absent is hasReactions = FALSE. *)
ImportanceInputs ==
    [source : EventSources, threadTs : BOOLEAN, hasReactions : BOOLEAN,
     reactions : ReactionCounts, priority : PriorityValues,
     links : BOOLEAN, mentions : BOOLEAN, textLength : TextLengths]

Unclamped(score) == score
Clamp(score) == IF score < 0 THEN 0 ELSE IF score > 100 THEN 100 ELSE score

CalculateImportance(e) ==
    LET afterSlack ==
            IF e.source = "slack"
            THEN BaseImportance
                 - (IF e.threadTs THEN ThreadPenalty ELSE 0)
                 + (IF e.hasReactions /\ e.reactions > 0 THEN ReactionsBonus ELSE 0)
            ELSE BaseImportance
        afterJira ==
            IF e.source = "jira" /\ e.priority \in {"High", "Critical"}
            THEN afterSlack + PriorityBonus ELSE afterSlack
        afterLinks == IF e.links THEN afterJira + LinksBonus ELSE afterJira
        afterMentions == IF e.mentions THEN afterLinks + MentionsBonus ELSE afterLinks
        afterText == IF e.textLength > LongTextLength
                     THEN afterMentions + LongTextBonus ELSE afterMentions
    IN  Clamp(afterText)

ImportanceCall ==
    /\ proc.pc = "called" /\ proc.op = "importance"
    /\ proc' = [proc EXCEPT !.pc = "returned",
                            !.importance = CalculateImportance(proc.event)]
    /\ UNCHANGED <<queueVars, ingestVars, storeVars, agentVars, toolExec, ctx, adapter>>

ImportanceSpecInit ==
    /\ QueueInit /\ queueDefaults = 0
    /\ IngestInit /\ StoreInit /\ AgentIdle
    /\ toolExec = [pc |-> "idle"] /\ ctx = [pc |-> "idle"] /\ AdapterInit
    /\ \E e \in ImportanceInputs :
          proc = [pc |-> "called", op |-> "importance", event |-> e,
                  importance |-> 0]

ImportanceNext == ImportanceCall

ImportanceSpec == ImportanceSpecInit /\ [][ImportanceNext]_vars

(* The adjustment each signal of the event contributes. *)
Adjustment(holds, amount) == IF holds THEN amount ELSE 0

SumOfAdjustments(e) ==
    Adjustment(e.source = "slack" /\ e.threadTs, 0 - ThreadPenalty)
    + Adjustment(e.source = "slack" /\ e.hasReactions /\ e.reactions > 0, ReactionsBonus)
    + Adjustment(e.source = "jira" /\ e.priority \in {"High", "Critical"}, PriorityBonus)
    + Adjustment(e.links, LinksBonus)
    + Adjustment(e.mentions, MentionsBonus)
    + Adjustment(e.textLength > LongTextLength, LongTextBonus)

(* C27: for every RawEvent and every combination of signals the computed
   importance is clamp(0.5 + sum of adjustments, 0, 1), with the slack
   adjustments for source slack only and the jira adjustment for source jira
   only, and always lies within [0,1]. *)
C27_ImportanceClamped ==
    (proc.pc = "returned" /\ proc.op = "importance") =>
        LET total == BaseImportance + SumOfAdjustments(proc.event)
        IN  /\ proc.importance \in 0..100
            /\ (total \in 0..100 => proc.importance = total)
            /\ (total > 100 => proc.importance = 100)
            /\ (total < 0 => proc.importance = 0)

C27_Witness ==
    /\ proc.pc = "returned" /\ proc.op = "importance"
    /\ proc.event.source = "jira" /\ proc.event.priority = "Critical"
    /\ proc.event.links /\ proc.event.mentions
    /\ proc.event.textLength > LongTextLength
    /\ BaseImportance + SumOfAdjustments(proc.event) > 100
    /\ proc.importance = 100

----------------------------------------------------------------------------
(* The tool registry AgentService builds: createDefaultToolRegistry followed
   by setupMemoryTools.  A registry is a function from tool names to tools;
   a tool's handler is named by what it does. *)

BuiltinArgNames == {"query", "source", "text", "limit"}
BuiltinArgs == [BuiltinArgNames -> ArgKinds]

EmptyRegistry == <<>>

(* ToolRegistry.register: a tool of the same name is overwritten. *)
Register(registry, tool) ==
    [n \in DOMAIN registry \cup {tool.name} |->
        IF n = tool.name THEN tool ELSE registry[n]]

MemoryTool(name, required, handler) ==
    [name |-> name,
     parameters |->
        << [name |-> required, type |-> "string", required |-> TRUE,  schema |-> FALSE],
           [name |-> "limit",  type |-> "number", required |-> FALSE, schema |-> FALSE] >>,
     handler |-> handler]

CreateDefaultToolRegistry ==
    Register(Register(Register(EmptyRegistry,
        MemoryTool("search_memory", "query", "notImplemented")),
        MemoryTool("get_recent_events", "source", "notImplemented")),
        MemoryTool("find_similar", "text", "notImplemented"))

(* AgentService.setupMemoryTools registers search_memory once more, with a
   handler that calls memoryService.search. *)
SetupMemoryTools(registry) ==
    Register(registry, MemoryTool("search_memory", "query", "search"))

AgentServiceRegistry == SetupMemoryTools(CreateDefaultToolRegistry)

NotImplemented == "Not implemented - should be overridden by agent"

BuiltinResult(success, delegated, data, error) ==
    [success |-> success, delegated |-> delegated, data |-> data, error |-> error]

(* The handlers: the placeholder of createDefaultToolRegistry, and the
   search handler of the agent service, which reports a failure of the
   retrieval service as an unsuccessful result. *)
RunHandler(handler, service) ==
    IF handler = "notImplemented"
    THEN BuiltinResult(FALSE, "none", Undefined, NotImplemented)
    ELSE IF service = "returns"
    THEN BuiltinResult(TRUE, handler, "chunks", Undefined)
    ELSE BuiltinResult(FALSE, handler, Undefined, "service error")

(* ToolRegistry.execute on the registry of the agent service. *)
RegistryExecute(registry, name, args, service) ==
    IF name \notin DOMAIN registry
    THEN BuiltinResult(FALSE, "none", Undefined, "Tool not found: " \o name)
    ELSE LET validation == ValidateFrom(registry[name].parameters, args, 1) IN
         IF ~validation.valid
         THEN BuiltinResult(FALSE, "none", Undefined,
                            "Invalid parameters: " \o validation.error)
         ELSE RunHandler(registry[name].handler, service)

BuiltinToolNames == {"search_memory", "get_recent_events", "find_similar"}
ServiceOutcomes == {"returns", "throws"}

BuiltinToolCall ==
    /\ proc.pc = "called" /\ proc.op = "tool"
    /\ proc' = [proc EXCEPT !.pc = "returned",
                            !.result = RegistryExecute(AgentServiceRegistry, proc.name,
                                                       proc.args, proc.service)]
    /\ UNCHANGED <<queueVars, ingestVars, storeVars, agentVars, toolExec, ctx, adapter>>

BuiltinSpecInit ==
    /\ QueueInit /\ queueDefaults = 0
    /\ IngestInit /\ StoreInit /\ AgentIdle
    /\ toolExec = [pc |-> "idle"] /\ ctx = [pc |-> "idle"] /\ AdapterInit
    /\ \E name \in BuiltinToolNames \cup {"unknown_tool"}, args \in BuiltinArgs,
          service \in ServiceOutcomes :
          proc = [pc |-> "called", op |-> "tool", name |-> name, args |-> args,
                  service |-> service,
                  result |-> BuiltinResult(FALSE, "none", Undefined, Undefined)]

BuiltinNext == BuiltinToolCall

BuiltinSpec == BuiltinSpecInit /\ [][BuiltinNext]_vars

(* The retrieval-service method each built-in tool is specified to call and
   the parameter it requires. *)
DelegateOf(name) ==
    IF name = "search_memory" THEN "search"
    ELSE IF name = "get_recent_events" THEN "getRecent" ELSE "findSimilar"

RequiredOf(name) ==
    IF name = "search_memory" THEN "query"
    ELSE IF name = "get_recent_events" THEN "source" ELSE "text"

ValidBuiltinCall ==
    /\ proc.name \in BuiltinToolNames
    /\ proc.args[RequiredOf(proc.name)] = "string"
    /\ proc.args["limit"] \in {"absent", "number"}

(* C28: in the registry the agent service hands to the orchestrator, each
   built-in memory tool executed with valid parameters delegates to the
   retrieval service (search, getRecent, findSimilar respectively) and
   returns that result; none returns a 'not implemented' failure. *)
C28_BuiltinToolsDelegate ==
    (proc.pc = "returned" /\ proc.op = "tool" /\ ValidBuiltinCall) =>
        /\ proc.result.delegated = DelegateOf(proc.name)
        /\ proc.result.error # NotImplemented
        /\ (proc.service = "returns" => proc.result.success)

----------------------------------------------------------------------------
(* C29: findSimilar(chunkId) never includes the anchor chunk in its results,
   and for an id that is not in the store it fails with a not-found error
   without running a search. *)
FindSimilarExcludesAnchor ==
    (read.op = "findSimilar" /\ read.pc = "returned") =>
        read.target \notin Range(read.output)

FindSimilarNotFoundStep ==
    (read.op = "findSimilar" /\ read.pc = "findUnique"
        /\ read.target \notin DOMAIN chunks /\ read' # read)
    => (read'.pc = "threw" /\ read'.error = "Chunk not found"
        /\ read'.stage = "lookup" /\ read'.query = 0 /\ chunks' = chunks)

C29_FindSimilarAnchorAndNotFound ==
    [](FindSimilarExcludesAnchor) /\ [][FindSimilarNotFoundStep]_vars

C29_Witness ==
    /\ read.op = "findSimilar" /\ read.pc = "returned"
    /\ read.target \in Range(read.result)
    /\ read.target \notin Range(read.output)

(* Searches over a table no store call changes, each of which the caller may
   run a second time. *)
RepeatNext ==
    \/ SearchStart
    \/ SearchRepeat
    \/ SearchSelect
    \/ SearchSelectThrows
    \/ UpdateAccessStats
    \/ UpdateAccessStatsFails

RepeatSpec == SearchSpecInit /\ [][RepeatNext]_vars

(* C30: running the same search twice with no store or lifecycle write in
   between returns the same chunk ids (hence, the embeddings being
   unchanged, the same similarities), whatever the order among ties: the
   access-statistics update of the first run does not change what the second
   returns. *)
C30_SearchIdempotent ==
    (read.op = "search" /\ read.repeated /\ read.pc \in {"update", "returned"})
    => Range(read.result) = Range(read.first)

----------------------------------------------------------------------------
AdapterSpecInit ==
    /\ QueueInit /\ queueDefaults = 0
    /\ IngestInit /\ StoreInit /\ AgentIdle /\ PureIdle

AdapterNext ==
    \/ ConnectBegin
    \/ ConnectNewApp
    \/ ConnectNewAppThrows
    \/ DisconnectBegin
    \/ DisconnectNoApp
    \/ DisconnectStopResolves
    \/ DisconnectStopRejects
    \/ AdapterStart
    \/ AdapterStop

AdapterSpec == AdapterSpecInit /\ [][AdapterNext]_vars

(* C31: the status is always one of disconnected, connecting, connected,
   error, and connected implies that the adapter holds a client; the status
   changes only when connect() moves it to connecting and from there to
   connected (success) or error (failure), or when disconnect() ends in
   disconnected; start() without a successful connect since the last
   disconnect fails, and start() never changes the status. *)
AdapterStatusValid ==
    /\ adapter.status \in AdapterStatus
    /\ (adapter.status = "connected" => adapter.app # "null")
    /\ (adapter.step = "disconnectDone" => adapter.status = "disconnected")

AdapterTransition ==
    /\ (adapter'.status # adapter.status =>
           \/ adapter'.step = "connectBegin" /\ adapter'.status = "connecting"
           \/ /\ adapter'.step = "connectOk" /\ adapter.status = "connecting"
              /\ adapter'.status = "connected"
           \/ /\ adapter'.step = "connectFail" /\ adapter.status = "connecting"
              /\ adapter'.status = "error"
           \/ adapter'.step = "disconnectDone" /\ adapter'.status = "disconnected")
    /\ (adapter.step = "connectBegin" /\ adapter' # adapter =>
           adapter'.step \in {"connectOk", "connectFail"})
    /\ (adapter'.calls # adapter.calls
           /\ adapter'.step \in {"startFailed", "startCalled"} =>
           /\ adapter'.status = adapter.status
           /\ (~adapter.connectedOk => adapter'.step = "startFailed"))

C31_AdapterStateMachine ==
    [](AdapterStatusValid) /\ [][AdapterTransition]_vars

C31_Witness ==
    /\ adapter.step = "startFailed" /\ adapter.status = "disconnected"
    /\ adapter.calls >= 3 /\ ~adapter.connectedOk

----------------------------------------------------------------------------
(* One request to the query API: the global ValidationPipe, the controller
   and service, the LLM client's handleError and the global
   HttpExceptionFilter. *)

InternalServerError == 500

Routes == {"agent/query", "memory/search", "unknown"}
ApiErrorStatuses == {400, 401, 403, 429, 500, 529}
RetryAfterHeaders == {"absent", "30"}
ServiceErrors == {"Chunk not found", "Connection refused"}

NoCause == [apiError |-> FALSE, status |-> 0, retryAfter |-> "absent"]
NoException ==
    [class |-> "none", http |-> FALSE, status |-> 0, message |-> "", cause |-> NoCause]

(* An HttpException thrown by the framework: its status and message. *)
HttpException(class, status, message) ==
    [class |-> class, http |-> TRUE, status |-> status, message |-> message,
     cause |-> NoCause]

(* An Error that is not an HttpException. *)
PlainError(class, message, cause) ==
    [class |-> class, http |-> FALSE, status |-> 0, message |-> message,
     cause |-> cause]

(* AnthropicClient.handleError *)
HandleError(error) ==
    IF error.apiError
    THEN IF error.status = 429
         THEN PlainError("LLMRateLimitError", "Rate limit exceeded for anthropic", error)
         ELSE IF error.status = 401 \/ error.status = 403
         THEN PlainError("LLMAuthError", "Authentication failed for anthropic", error)
         ELSE PlainError("LLMError", "Anthropic API error", error)
    ELSE PlainError("LLMError", "Unknown error from Anthropic", error)

(* HttpExceptionFilter.catch: the status and message of the response. *)
FilterResponse(exception) ==
    IF exception.http
    THEN [status |-> exception.status, message |-> exception.message]
    ELSE [status |-> InternalServerError, message |-> exception.message]

(* The request reaches the router and the ValidationPipe. *)
RouteRequest ==
    /\ proc.pc = "received" /\ proc.op = "request"
    /\ proc' = IF proc.route = "unknown"
               THEN [proc EXCEPT !.pc = "filter",
                        !.exception = HttpException("NotFoundException", 404, "Cannot POST")]
               ELSE IF ~proc.bodyValid
               THEN [proc EXCEPT !.pc = "filter",
                        !.exception = HttpException("BadRequestException", 400, "Bad Request")]
               ELSE [proc EXCEPT !.pc = "handler"]
    /\ UNCHANGED <<queueVars, ingestVars, storeVars, agentVars, toolExec, ctx, adapter>>

(* The service answers: @HttpCode(200). *)
HandlerReturns ==
    /\ proc.pc = "handler" /\ proc.op = "request"
    /\ proc' = [proc EXCEPT !.pc = "responded", !.status = 200]
    /\ UNCHANGED <<queueVars, ingestVars, storeVars, agentVars, toolExec, ctx, adapter>>

(* A call of the LLM provider fails; handleError turns the failure into an
   LLM error, which the agent and the service rethrow. *)
HandlerLlmFails ==
    /\ proc.pc = "handler" /\ proc.op = "request"
    /\ \E apiError \in BOOLEAN, status \in ApiErrorStatuses,
          retryAfter \in RetryAfterHeaders :
          proc' = [proc EXCEPT !.pc = "filter",
                      !.exception = HandleError([apiError |-> apiError,
                                                 status |-> status,
                                                 retryAfter |-> retryAfter])]
    /\ UNCHANGED <<queueVars, ingestVars, storeVars, agentVars, toolExec, ctx, adapter>>

(* The store or the retrieval service throws a plain Error. *)
HandlerServiceFails ==
    /\ proc.pc = "handler" /\ proc.op = "request"
    /\ \E message \in ServiceErrors :
          proc' = [proc EXCEPT !.pc = "filter",
                      !.exception = PlainError("Error", message, NoCause)]
    /\ UNCHANGED <<queueVars, ingestVars, storeVars, agentVars, toolExec, ctx, adapter>>

(* The global filter catches the exception and sends the response. *)
ExceptionFilterCatch ==
    /\ proc.pc = "filter" /\ proc.op = "request"
    /\ proc' = [proc EXCEPT !.pc = "responded",
                            !.status = FilterResponse(proc.exception).status,
                            !.message = FilterResponse(proc.exception).message]
    /\ UNCHANGED <<queueVars, ingestVars, storeVars, agentVars, toolExec, ctx, adapter>>

HttpSpecInit ==
    /\ QueueInit /\ queueDefaults = 0
    /\ IngestInit /\ StoreInit /\ AgentIdle
    /\ toolExec = [pc |-> "idle"] /\ ctx = [pc |-> "idle"] /\ AdapterInit
    /\ \E route \in Routes, bodyValid \in BOOLEAN :
          proc = [pc |-> "received", op |-> "request", route |-> route,
                  bodyValid |-> bodyValid, exception |-> NoException,
                  status |-> 0, message |-> ""]

HttpNext ==
    \/ RouteRequest
    \/ HandlerReturns
    \/ HandlerLlmFails
    \/ HandlerServiceFails
    \/ ExceptionFilterCatch

HttpSpec == HttpSpecInit /\ [][HttpNext]_vars

(* The internal error kind of an exception. *)
KindOf(exception) ==
    IF exception.class = "BadRequestException" THEN "Validation"
    ELSE IF exception.class = "NotFoundException" THEN "NotFound"
    ELSE IF exception.class = "LLMRateLimitError" THEN "RateLimited"
    ELSE IF exception.class = "LLMAuthError" THEN "Unauthenticated"
    ELSE IF exception.class = "LLMError" THEN "Upstream"
    ELSE "Fatal"

(* C32: for every error raised while serving a query-API request the HTTP
   status follows the internal error kind: 4xx for Validation or NotFound,
   429 for RateLimited, 503 for persistent Upstream, 500 for Fatal. *)
C32_StatusByErrorKind ==
    (proc.pc = "responded" /\ proc.op = "request" /\ proc.exception.class # "none") =>
        LET kind == KindOf(proc.exception) IN
        /\ (kind \in {"Validation", "NotFound"} => proc.status \in 400..499)
        /\ (kind = "RateLimited" => proc.status = 429)
        /\ (kind = "Upstream" => proc.status = 503)
        /\ (kind = "Fatal" => proc.status = 500)

----------------------------------------------------------------------------
(* The budget left for knowledge and the tokens of the first k retrieved
   chunks, from the arguments and the result of the buildContext call. *)
RemainingBudget ==
    ctx.result.maxTokens - EstimateTokens(ctx.result.systemPrompt)
    - HistoryTokens(ctx.result.conversationHistory) - FormattingReserve

RECURSIVE PrefixTokens(_)
PrefixTokens(k) ==
    IF k = 0 THEN 0
    ELSE PrefixTokens(k - 1) + EstimateTokens(FormatChunk(ctx.retrieved[k]))

FormattedPrefix(k) == [i \in 1..k |-> FormatChunk(ctx.retrieved[i])]

(* C33: the chunks selected are a prefix of the retrieved list in retrieval
   order, ending before the first chunk whose estimated tokens would exceed
   the remaining budget (maxTokens minus system-prompt and history tokens
   minus the 500-token reserve); no later chunk is included, and with a
   non-positive remaining budget no chunk is included. *)
C33_SelectionIsFittingPrefix ==
    ctx.pc = "returned" =>
        LET k == ctx.result.chunksUsed IN
        /\ k \in 0..Len(ctx.retrieved)
        /\ ctx.result.knowledgeContext = JoinLen(FormattedPrefix(k))
        /\ PrefixTokens(k) <= RemainingBudget \/ k = 0
        /\ (k < Len(ctx.retrieved) => PrefixTokens(k + 1) > RemainingBudget)
        /\ (RemainingBudget <= 0 => k = 0)

C33_Witness ==
    /\ ctx.pc = "returned" /\ Len(ctx.retrieved) = 2
    /\ ctx.result.chunksUsed = 0 /\ RemainingBudget > 0
    /\ EstimateTokens(FormatChunk(ctx.retrieved[1])) > RemainingBudget
    /\ EstimateTokens(FormatChunk(ctx.retrieved[2])) <= RemainingBudget

----------------------------------------------------------------------------
(* C34: for every response the rerank LLM can return (any sequence of
   integers, repeated and out-of-range indices included), the list returned
   by reranking is a permutation of the input list: same length, every input
   chunk exactly once. *)
C34_RerankIsPermutation ==
    RerankReturned =>
        /\ proc.result.ok
        /\ Len(proc.result.chunks) = Len(proc.chunks)
        /\ \A i \in DOMAIN proc.chunks :
               Cardinality({j \in DOMAIN proc.result.chunks :
                                proc.result.chunks[j] = proc.chunks[i]}) = 1

----------------------------------------------------------------------------
(* MemoryService.search (POST /memory/search) and
   MemoryRetrievalService.search: how the options of a caller reach
   VectorStore.search.  An optional number is a record that tells whether it
   was supplied; similarities are in hundredths. *)

ApiDefaultLimit               == 10
ApiDefaultMinSimilarity       == 70
RetrievalDefaultTopK          == 20
RetrievalDefaultMinSimilarity == 50

NotGiven == [given |-> FALSE, value |-> 0]
Given(v) == [given |-> TRUE, value |-> v]

(* x || d for an optional number: 0 is falsy as undefined is. *)
OrElse(x, d) == IF x.given /\ x.value # 0 THEN x.value ELSE d

NoSourceTypes == [given |-> FALSE, list |-> <<>>]
SourceTypeList(list) == [given |-> TRUE, list |-> list]

(* dto.sourceTypes?.[0]; "" stands for undefined *)
FirstSourceType(sourceTypes) ==
    IF sourceTypes.given /\ Len(sourceTypes.list) > 0
    THEN sourceTypes.list[1] ELSE ""

(* SearchRequestDto as the validation pipe lets it through: limit >= 1,
   0 <= minSimilarity <= 1. *)
SearchRequestDtos ==
    [ limit : {NotGiven, Given(1)},
      minSimilarity : {NotGiven, Given(0), Given(60)},
      sourceTypes : {NoSourceTypes, SourceTypeList(<<>>),
                     SourceTypeList(<<"slack">>),
                     SourceTypeList(<<"slack", "github">>),
                     SourceTypeList(<<"github", "slack">>)} ]

NoDto == [limit |-> NotGiven, minSimilarity |-> NotGiven,
          sourceTypes |-> NoSourceTypes]

(* RetrievalOptions of a caller of MemoryRetrievalService.search *)
RetrievalOptionsSet ==
    [ topK : {NotGiven, Given(1)},
      minSimilarity : {NotGiven, Given(0), Given(60)},
      sourceType : SourceTypes \cup {""} ]

NoRetrievalOptions ==
    [topK |-> NotGiven, minSimilarity |-> NotGiven, sourceType |-> ""]

(* The options MemoryService.search hands to the retrieval service. *)
RetrievalOptionsOf(dto) ==
    [ topK          |-> Given(OrElse(dto.limit, ApiDefaultLimit)),
      minSimilarity |-> Given(OrElse(dto.minSimilarity, ApiDefaultMinSimilarity)),
      sourceType    |-> FirstSourceType(dto.sourceTypes) ]

(* searchOptions of MemoryRetrievalService.search *)
SearchOptionsOf(options) ==
    [ topK |-> OrElse(options.topK, RetrievalDefaultTopK),
      similarityThreshold |-> OrElse(options.minSimilarity,
                                     RetrievalDefaultMinSimilarity),
      sourceTypes |-> IF options.sourceType # "" THEN {options.sourceType} ELSE {},
      tiers |-> [given |-> TRUE, set |-> DefaultTiers] ]

(* proc: a search on its way from the caller to the vector store and back. *)
MemorySearchCall(pc, via, dto, options) ==
    [ pc |-> pc, op |-> "memorySearch", via |-> via, dto |-> dto,
      options |-> options, results |-> <<>> ]

(* MemoryService.search up to its call of retrievalService.search *)
MemoryServiceSearch ==
    /\ proc.pc = "request" /\ proc.op = "memorySearch"
    /\ proc' = [proc EXCEPT !.pc = "retrieval",
                            !.options = RetrievalOptionsOf(proc.dto)]
    /\ UNCHANGED <<queueVars, ingestVars, storeVars, agentVars, toolExec, ctx, adapter>>

(* MemoryRetrievalService.search: the query is embedded and
   vectorStore.search called with searchOptions. *)
RetrievalSearch ==
    /\ proc.pc = "retrieval" /\ proc.op = "memorySearch" /\ ReadIdle
    /\ \E query \in Queries :
          read' = [BeginRead("search", "select") EXCEPT
                      !.stage = "search", !.query = query,
                      !.opts = SearchOptionsOf(proc.options)]
    /\ proc' = [proc EXCEPT !.pc = "searching"]
    /\ UNCHANGED <<chunks, calls, queueVars, ingestVars, agentVars, toolExec, ctx, adapter>>

(* embeddingClient.embed(query) throws: nothing catches it before the
   caller (MemoryService.search logs and rethrows). *)
RetrievalEmbedFails ==
    /\ proc.pc = "retrieval" /\ proc.op = "memorySearch"
    /\ proc' = [proc EXCEPT !.pc = "threw"]
    /\ UNCHANGED <<queueVars, ingestVars, storeVars, agentVars, toolExec, ctx, adapter>>

(* The vector store has answered: the chunks go back to the caller in the
   order found (no rerank requested); an error of the store is rethrown. *)
RetrievalReturns ==
    /\ proc.pc = "searching" /\ proc.op = "memorySearch"
    /\ read.pc \in {"returned", "threw"}
    /\ proc' = IF read.pc = "returned"
               THEN [proc EXCEPT !.pc = "returned", !.results = read.output]
               ELSE [proc EXCEPT !.pc = "threw"]
    /\ UNCHANGED <<queueVars, ingestVars, storeVars, agentVars, toolExec, ctx, adapter>>

ApiSearchSpecInit ==
    /\ QueueInit /\ queueDefaults = 0
    /\ IngestInit /\ AgentIdle
    /\ toolExec = [pc |-> "idle"] /\ ctx = [pc |-> "idle"] /\ AdapterInit
    /\ chunks \in InitialTables /\ calls = <<>> /\ read = NoRead
    /\ \/ \E dto \in SearchRequestDtos :
             proc = MemorySearchCall("request", "api", dto, NoRetrievalOptions)
       \/ \E options \in RetrievalOptionsSet :
             proc = MemorySearchCall("retrieval", "service", NoDto, options)

ApiSearchNext ==
    \/ MemoryServiceSearch
    \/ RetrievalSearch
    \/ RetrievalEmbedFails
    \/ RetrievalReturns
    \/ SearchSelect
    \/ SearchSelectThrows
    \/ UpdateAccessStats
    \/ UpdateAccessStatsFails

ApiSearchSpec == ApiSearchSpecInit /\ [][ApiSearchNext]_vars

(* What the caller supplied as minSimilarity. *)
SuppliedMinSimilarity ==
    IF proc.via = "api" THEN proc.dto.minSimilarity
    ELSE proc.options.minSimilarity

(* C35: for every caller-supplied minSimilarity m in [0,1] (0 included), the
   threshold the vector store applies is exactly m, through
   MemoryRetrievalService.search and through the /memory/search service; a
   default is used only when the caller supplies none. *)
C35_SuppliedThresholdApplied ==
    (proc.pc \in {"searching", "returned"} /\ SuppliedMinSimilarity.given)
    => EffectiveOptions(read.opts).similarityThreshold = SuppliedMinSimilarity.value

(* The rows a /memory/search request with source types S should find: those
   of a type in S that pass the tier and similarity filters. *)
QualifyingOfTypes(S) ==
    {i \in DOMAIN chunks :
        /\ chunks[i].tier \in EffectiveOptions(read.opts).tiers
        /\ chunks[i].sourceType \in S
        /\ Similarity(chunks[i].embedding, read.query)
              >= EffectiveOptions(read.opts).similarityThreshold}

(* C36: a /memory/search request with a set S of sourceTypes returns
   qualifying chunks of every source type in S and of no other type: the
   source filter is membership in S, not only its first element. *)
C36_SourceFilterIsMembership ==
    (proc.pc = "returned" /\ proc.via = "api"
        /\ proc.dto.sourceTypes.given /\ Len(proc.dto.sourceTypes.list) > 0)
    => LET S == Range(proc.dto.sourceTypes.list)
       IN  /\ \A i \in Range(proc.results) : chunks[i].sourceType \in S
           /\ Cardinality(QualifyingOfTypes(S)) <= EffectiveOptions(read.opts).topK
                 => QualifyingOfTypes(S) \subseteq Range(proc.results)

----------------------------------------------------------------------------
(* findSimilar over a table no store call changes. *)
SimilarNext ==
    \/ FindSimilarStart
    \/ GetByIdFind
    \/ UpdateAccessStats
    \/ UpdateAccessStatsFails
    \/ FindSimilarNoEmbedding
    \/ FindSimilarSearch
    \/ SearchSelect
    \/ SearchSelectThrows

SimilarSpec == SearchSpecInit /\ [][SimilarNext]_vars

(* The chunks other than the anchor that pass the tier, source and
   similarity filters of a findSimilar call. *)
QualifyingNeighbours ==
    Qualifying(read.query, EffectiveOptions(read.opts)) \ {read.target}

(* C37: findSimilar(chunkId) with topK = k returns k neighbours whenever at
   least k chunks other than the anchor satisfy the tier, source and
   similarity filters; the excluded anchor does not use up one of the k
   result slots. *)
C37_FindSimilarFillsTopK ==
    (read.op = "findSimilar" /\ read.pc = "returned"
        /\ Cardinality(QualifyingNeighbours) >= EffectiveOptions(read.opts).topK)
    => Len(read.output) = EffectiveOptions(read.opts).topK

----------------------------------------------------------------------------
(* A search or getById whose statistics update failed has returned what it
   found. *)
StatsFailureReturns ==
    (read.op \in {"search", "getById"} /\ read.statsFailed)
    => (read.pc = "returned" /\ read.output = read.result /\ Len(read.output) > 0)

(* The step on which the update fails changes no row. *)
StatsFailureStep ==
    (read.op \in {"search", "getById"} /\ read.pc = "update"
        /\ ~read.statsFailed /\ read'.statsFailed)
    => (chunks' = chunks /\ read'.pc = "returned" /\ read'.output = read.result)

(* C38: a failure of the access-statistics update does not fail the read:
   VectorStore.search and getById still return their results when the update
   throws, and in that case no chunk's access_count or last_accessed_at has
   changed. *)
C38_StatsFailureKeepsRead ==
    [](StatsFailureReturns) /\ [][StatsFailureStep]_vars

C38_Witness ==
    /\ read.op = "search" /\ read.statsFailed /\ read.pc = "returned"
    /\ Len(read.output) > 0
    /\ \A i \in Range(read.output) : chunks[i].accessCount = 0

----------------------------------------------------------------------------
(* POST /agent/query: AgentService.query and OrchestratorAgent.process up to
   the first chat call of the agent loop (the loop itself is AgentSpec).
   The system message is kept as its prompt and the ids of the chunks of its
   knowledge section. *)

ContextTopK          == 30
ContextMinSimilarity == 60

IncludeMemoryContextOpts ==
    {[given |-> FALSE, value |-> TRUE], [given |-> TRUE, value |-> TRUE],
     [given |-> TRUE, value |-> FALSE]}

(* dto.includeMemoryContext !== false *)
NotFalse(flag) == ~(flag.given /\ flag.value = FALSE)

AgentQueryCall(flag) ==
    [ pc |-> "request", op |-> "agentQuery", dto |-> [includeMemoryContext |-> flag],
      request |-> [context |-> [includeMemoryContext |-> TRUE]],
      systemMessage |-> [systemPrompt |-> "", knowledge |-> <<>>] ]

(* AgentService.query builds the request and calls agent.process. *)
AgentServiceQuery ==
    /\ proc.pc = "request" /\ proc.op = "agentQuery"
    /\ proc' = [proc EXCEPT
                   !.pc = "process",
                   !.request = [context |-> [includeMemoryContext |->
                                    NotFalse(proc.dto.includeMemoryContext)]]]
    /\ UNCHANGED <<queueVars, ingestVars, storeVars, agentVars, toolExec, ctx, adapter>>

(* process calls contextBuilder.buildContext, which calls
   retrievalService.search(query, {topK: 30, minSimilarity: 0.6}); the
   request's context is not read. *)
ProcessBuildContext ==
    /\ proc.pc = "process" /\ proc.op = "agentQuery" /\ ReadIdle
    /\ \E query \in Queries :
          read' = [BeginRead("search", "select") EXCEPT
                      !.stage = "search", !.query = query,
                      !.opts = SearchOptionsOf(
                                   [topK |-> Given(ContextTopK),
                                    minSimilarity |-> Given(ContextMinSimilarity),
                                    sourceType |-> ""])]
    /\ proc' = [proc EXCEPT !.pc = "retrieving"]
    /\ UNCHANGED <<chunks, calls, queueVars, ingestVars, agentVars, toolExec, ctx, adapter>>

(* The search has answered: selectChunks keeps the first chunks that fit the
   token budget (the rows carry no text here, so any prefix), the system
   message is built from the prompt and the knowledge, and the loop makes
   its first chat call.  An error of the search is rethrown by process. *)
ProcessFirstChat ==
    /\ proc.pc = "retrieving" /\ proc.op = "agentQuery"
    /\ read.pc \in {"returned", "threw"}
    /\ IF read.pc = "returned"
       THEN \E k \in 0..Len(read.output) :
               proc' = [proc EXCEPT
                          !.pc = "chat",
                          !.systemMessage = [systemPrompt |-> "s",
                                             knowledge |-> SubSeq(read.output, 1, k)]]
       ELSE proc' = [proc EXCEPT !.pc = "threw"]
    /\ UNCHANGED <<queueVars, ingestVars, storeVars, agentVars, toolExec, ctx, adapter>>

QuerySpecInit ==
    /\ QueueInit /\ queueDefaults = 0
    /\ IngestInit /\ AgentIdle
    /\ toolExec = [pc |-> "idle"] /\ ctx = [pc |-> "idle"] /\ AdapterInit
    /\ chunks \in InitialTables /\ calls = <<>> /\ read = NoRead
    /\ \E flag \in IncludeMemoryContextOpts : proc = AgentQueryCall(flag)

QueryNext ==
    \/ AgentServiceQuery
    \/ ProcessBuildContext
    \/ ProcessFirstChat
    \/ SearchSelect
    \/ SearchSelectThrows
    \/ UpdateAccessStats
    \/ UpdateAccessStatsFails

QuerySpec == QuerySpecInit /\ [][QueryNext]_vars

(* C39: an agent query with includeMemoryContext = false performs no memory
   retrieval for context: the system message of the first LLM call holds no
   knowledge from the store (it is the same whatever the store contains) and
   no chunk's access statistics have changed before that call. *)
C39_NoRetrievalWhenExcluded ==
    (proc.pc = "chat" /\ proc.op = "agentQuery"
        /\ proc.dto.includeMemoryContext = [given |-> TRUE, value |-> FALSE])
    => /\ proc.systemMessage.knowledge = <<>>
       /\ \A i \in DOMAIN chunks :
              chunks[i].accessCount = 0 /\ chunks[i].lastAccessedAt = 0

====
